---- MODULE Spec2Model ----
(***************************************************************************)
(* ResearchFlow: the undo/redo engine (src/undo.py), the entities          *)
(* (src/models.py) and the project manager's validation and asset cleanup  *)
(* (src/utils.py).                                                         *)
(*                                                                         *)
(* UndoManager keeps two Python lists, _undo_stack and _redo_stack (index  *)
(* 0 is the oldest entry, the end of the list is the newest), and the      *)
(* boolean _is_undoing.  execute(), undo() and redo() call out to the      *)
(* command's execute()/undo() in the middle of their body; that call runs  *)
(* code of the Mutation Target, which may call back into the manager,      *)
(* return, or raise.  So each of the three is modelled as an enter step    *)
(* (everything up to and including the start of the command's method) and  *)
(* a return or raise step (everything after it); the calls in progress are *)
(* kept in call_stack, innermost last.                                     *)
(*                                                                         *)
(* The history file is modelled by what json.load reads from it; the 22    *)
(* command classes by their fields, to_dict and from_dict; the canvas      *)
(* commands NodePositionCommand, GroupMoveCommand and                      *)
(* NodeGroupChangeCommand also by what execute() and undo() do to the      *)
(* scene.  Positions are integers.                                         *)
(*                                                                         *)
(* The entities are modelled by their fields, to_dict and from_dict, with  *)
(* from_dict raising where the Python code raises; the asset directories   *)
(* by the set of the files in them, and unlink() as succeeding or raising  *)
(* IOError.                                                                *)
(***************************************************************************)
EXTENDS Integers, Sequences, FiniteSets, TLC

VARIABLES
    undo_stack,                  \* UndoManager._undo_stack, oldest first
    redo_stack,                  \* UndoManager._redo_stack, oldest first
    is_undoing,                  \* UndoManager._is_undoing (the re-entrancy guard)
    call_stack,                  \* execute()/undo()/redo() calls in progress, innermost last
    context_has_project_manager, \* hasattr(self.context, 'project_manager')
    current_project_path,        \* ProjectManager.current_project_path
    history_file,                \* <project>/undo_history.json on disk
    calls,                       \* command methods started by the last step
    io,                          \* what the last step did to the history file
    ret,                         \* what the last step returned to its caller
    roundtrip,                   \* history variable: an undo() then redo() pair
    scene,                       \* self.context.scene: its nodes and groups
    constructed,                 \* the command object constructed last
    log,                         \* history variable: what was done with that command
    snapshot,                    \* history variable: the scene around its construction
    project_data,                \* ProjectManager.project_data
    asset_files,                 \* the files in <project>/assets/papers and assets/images
    project_dock,                \* self.context.project_dock: its todo list
    entity,                      \* an entity object in hand (src/models.py)
    record,                      \* a dict in hand, as to_dict returns or json.loads reads it
    returned,                    \* what the last ProjectManager or entity call did and returned
    current_project_name,        \* ProjectManager.current_project_name
    projects_dir,                \* get_projects_dir(): the project directories on disk
    session                      \* history variable: the graph before and after the executes

manager_vars == <<undo_stack, redo_stack, is_undoing, call_stack,
                  context_has_project_manager, current_project_path,
                  history_file, calls, io, ret, roundtrip>>

scene_vars == <<scene, constructed, log, snapshot>>

project_vars == <<project_data, asset_files, project_dock, entity, record, returned>>

session_vars == <<current_project_name, projects_dir, session>>

vars == <<undo_stack, redo_stack, is_undoing, call_stack,
          context_has_project_manager, current_project_path,
          history_file, calls, io, ret, roundtrip,
          scene, constructed, log, snapshot,
          project_data, asset_files, project_dock, entity, record, returned,
          current_project_name, projects_dir, session>>

----------------------------------------------------------------------------
(* Program constants and bounds *)

MAX_HISTORY == 100

\* Spec: execute() is offered only while fewer commands than this are held.
MaxHeld == 3
\* Spec: undo()/redo() nest at most this deep.
MaxDepth == 2
\* SpecCap: todo_index of the commands executed runs to MAX_HISTORY + MaxOver.
MaxOver == 2

None == "None"
ProjectPath == "projects/p1"

----------------------------------------------------------------------------
(* Python values that JSON does not return as they were *)

\* A tuple and a list of the same items are different values: (0, 0) # [0, 0].
py_tuple(items) == [py |-> "tuple", items |-> items]

py_list(items) == [py |-> "list", items |-> items]

\* A number where a sequence is expected.
py_number(value) == [py |-> "number", value |-> value]

\* tuple(value) raises TypeError unless value can be iterated.
iterable(value) == value.py \in {"tuple", "list"}

\* json.load of what json.dump wrote for this value: a tuple is written as an
\* array, and an array is read back as a list.
json_value(value) ==
    IF value.py = "tuple" THEN py_list(value.items) ELSE value

----------------------------------------------------------------------------
(* Commands: the 22 dataclasses of src/undo.py, without their context field *)

DescriptionChangeCommand(old_value, new_value) ==
    [cls |-> "DescriptionChangeCommand", old_value |-> old_value, new_value |-> new_value]

TodoAddCommand(todo_text, todo_index) ==
    [cls |-> "TodoAddCommand", todo_text |-> todo_text, todo_index |-> todo_index]

TodoRemoveCommand(todo_index, todo_text, is_done) ==
    [cls |-> "TodoRemoveCommand", todo_index |-> todo_index, todo_text |-> todo_text,
     is_done |-> is_done]

TodoEditCommand(todo_index, old_text, new_text) ==
    [cls |-> "TodoEditCommand", todo_index |-> todo_index, old_text |-> old_text,
     new_text |-> new_text]

\* TodoToggleCommand(context, todo_index, new_state)
TodoToggleCommand(todo_index, new_state) ==
    [cls |-> "TodoToggleCommand", todo_index |-> todo_index, new_state |-> new_state]

TodoMoveCommand(from_index, to_index) ==
    [cls |-> "TodoMoveCommand", from_index |-> from_index, to_index |-> to_index]

TagAddCommand(tag_name, tag_index) ==
    [cls |-> "TagAddCommand", tag_name |-> tag_name, tag_index |-> tag_index]

TagRemoveCommand(tag_name, tag_color, tag_index) ==
    [cls |-> "TagRemoveCommand", tag_name |-> tag_name, tag_color |-> tag_color,
     tag_index |-> tag_index]

TagRenameCommand(old_name, new_name) ==
    [cls |-> "TagRenameCommand", old_name |-> old_name, new_name |-> new_name]

TagColorChangeCommand(tag_name, old_color, new_color) ==
    [cls |-> "TagColorChangeCommand", tag_name |-> tag_name, old_color |-> old_color,
     new_color |-> new_color]

TagMoveCommand(from_index, to_index) ==
    [cls |-> "TagMoveCommand", from_index |-> from_index, to_index |-> to_index]

NodePositionCommand(node_id, old_x, old_y, new_x, new_y) ==
    [cls |-> "NodePositionCommand", node_id |-> node_id, old_x |-> old_x,
     old_y |-> old_y, new_x |-> new_x, new_y |-> new_y]

AddNodeCommand(node_data_dict) ==
    [cls |-> "AddNodeCommand", node_data_dict |-> node_data_dict]

RemoveNodeCommand(node_data_dict, connected_edges) ==
    [cls |-> "RemoveNodeCommand", node_data_dict |-> node_data_dict,
     connected_edges |-> connected_edges]

AddEdgeCommand(edge_data_dict) ==
    [cls |-> "AddEdgeCommand", edge_data_dict |-> edge_data_dict]

RemoveEdgeCommand(edge_data_dict) ==
    [cls |-> "RemoveEdgeCommand", edge_data_dict |-> edge_data_dict]

AddGroupCommand(group_data_dict) ==
    [cls |-> "AddGroupCommand", group_data_dict |-> group_data_dict]

RemoveGroupCommand(group_data_dict) ==
    [cls |-> "RemoveGroupCommand", group_data_dict |-> group_data_dict]

\* The fields of a GroupMoveCommand.  old_pos and new_pos are tuples;
\* child_positions is the dict {node_id: (old_x, old_y)}, kept here as the
\* sequence of its items in insertion order, which is the order .items() and
\* json follow.
GroupMoveCommand(group_id, old_pos, new_pos, child_positions, first_execute) ==
    [cls |-> "GroupMoveCommand", group_id |-> group_id, old_pos |-> old_pos,
     new_pos |-> new_pos, child_positions |-> child_positions,
     first_execute |-> first_execute]

NodeGroupChangeCommand(node_id, old_group_id, new_group_id) ==
    [cls |-> "NodeGroupChangeCommand", node_id |-> node_id,
     old_group_id |-> old_group_id, new_group_id |-> new_group_id]

GlobalEdgeColorChangeCommand(old_pipeline_color, old_reference_color, new_pipeline_color, new_reference_color) ==
    [cls |-> "GlobalEdgeColorChangeCommand",
     old_pipeline_color |-> old_pipeline_color,
     old_reference_color |-> old_reference_color,
     new_pipeline_color |-> new_pipeline_color,
     new_reference_color |-> new_reference_color]

ModulePaletteColorChangeCommand(module_type, old_color, new_color) ==
    [cls |-> "ModulePaletteColorChangeCommand", module_type |-> module_type,
     old_color |-> old_color, new_color |-> new_color]

\* Command.to_dict(), class by class
to_dict(cmd) ==
    CASE cmd.cls = "DescriptionChangeCommand" ->
            [type |-> "DescriptionChange", old_value |-> cmd.old_value,
             new_value |-> cmd.new_value]
      [] cmd.cls = "TodoAddCommand" ->
            [type |-> "TodoAdd", todo_text |-> cmd.todo_text,
             todo_index |-> cmd.todo_index]
      [] cmd.cls = "TodoRemoveCommand" ->
            [type |-> "TodoRemove", todo_index |-> cmd.todo_index,
             todo_text |-> cmd.todo_text, is_done |-> cmd.is_done]
      [] cmd.cls = "TodoEditCommand" ->
            [type |-> "TodoEdit", todo_index |-> cmd.todo_index,
             old_text |-> cmd.old_text, new_text |-> cmd.new_text]
      [] cmd.cls = "TodoToggleCommand" ->
            [type |-> "TodoToggle", todo_index |-> cmd.todo_index,
             new_state |-> cmd.new_state]
      [] cmd.cls = "TodoMoveCommand" ->
            [type |-> "TodoMove", from_index |-> cmd.from_index,
             to_index |-> cmd.to_index]
      [] cmd.cls = "TagAddCommand" ->
            [type |-> "TagAdd", tag_name |-> cmd.tag_name,
             tag_index |-> cmd.tag_index]
      [] cmd.cls = "TagRemoveCommand" ->
            [type |-> "TagRemove", tag_name |-> cmd.tag_name,
             tag_color |-> cmd.tag_color, tag_index |-> cmd.tag_index]
      [] cmd.cls = "TagRenameCommand" ->
            [type |-> "TagRename", old_name |-> cmd.old_name,
             new_name |-> cmd.new_name]
      [] cmd.cls = "TagColorChangeCommand" ->
            [type |-> "TagColorChange", tag_name |-> cmd.tag_name,
             old_color |-> cmd.old_color, new_color |-> cmd.new_color]
      [] cmd.cls = "TagMoveCommand" ->
            [type |-> "TagMove", from_index |-> cmd.from_index,
             to_index |-> cmd.to_index]
      [] cmd.cls = "NodePositionCommand" ->
            [type |-> "NodePosition", node_id |-> cmd.node_id,
             old_x |-> cmd.old_x, old_y |-> cmd.old_y,
             new_x |-> cmd.new_x, new_y |-> cmd.new_y]
      [] cmd.cls = "AddNodeCommand" ->
            [type |-> "AddNode", node_data_dict |-> cmd.node_data_dict]
      [] cmd.cls = "RemoveNodeCommand" ->
            [type |-> "RemoveNode", node_data_dict |-> cmd.node_data_dict,
             connected_edges |-> cmd.connected_edges]
      [] cmd.cls = "AddEdgeCommand" ->
            [type |-> "AddEdge", edge_data_dict |-> cmd.edge_data_dict]
      [] cmd.cls = "RemoveEdgeCommand" ->
            [type |-> "RemoveEdge", edge_data_dict |-> cmd.edge_data_dict]
      [] cmd.cls = "AddGroupCommand" ->
            [type |-> "AddGroup", group_data_dict |-> cmd.group_data_dict]
      [] cmd.cls = "RemoveGroupCommand" ->
            [type |-> "RemoveGroup", group_data_dict |-> cmd.group_data_dict]
      [] cmd.cls = "GroupMoveCommand" ->
            [type |-> "GroupMove", group_id |-> cmd.group_id,
             old_pos |-> cmd.old_pos, new_pos |-> cmd.new_pos,
             child_positions |-> cmd.child_positions]
      [] cmd.cls = "NodeGroupChangeCommand" ->
            [type |-> "NodeGroupChange", node_id |-> cmd.node_id,
             old_group_id |-> cmd.old_group_id,
             new_group_id |-> cmd.new_group_id]
      [] cmd.cls = "GlobalEdgeColorChangeCommand" ->
            [type |-> "GlobalEdgeColorChange",
             old_pipeline_color |-> cmd.old_pipeline_color,
             old_reference_color |-> cmd.old_reference_color,
             new_pipeline_color |-> cmd.new_pipeline_color,
             new_reference_color |-> cmd.new_reference_color]
      [] cmd.cls = "ModulePaletteColorChangeCommand" ->
            [type |-> "ModulePaletteColorChange", module_type |-> cmd.module_type,
             old_color |-> cmd.old_color, new_color |-> cmd.new_color]

----------------------------------------------------------------------------
(* Python list primitives *)

\* list.pop(): the list without its last element
pop(list) == SubSeq(list, 1, Len(list) - 1)

\* the element list.pop() returns
top(list) == list[Len(list)]

\* list.pop(0): the list without its first element
pop0(list) == Tail(list)

----------------------------------------------------------------------------
(* Persistence *)

NoFile == [status |-> "absent", undo_stack |-> <<>>, redo_stack |-> <<>>]

\* The file after open(history_file, 'w') succeeded and json.dump raised.
TruncatedFile == [status |-> "truncated", undo_stack |-> <<>>, redo_stack |-> <<>>]

IOOutcomes == {"ok", "open_failed", "dump_failed"}

\* ProjectManager.is_project_open, seen through self.context
is_project_open ==
    context_has_project_manager /\ current_project_path # None

\* The document save_to_file builds: both stacks through to_dict, in list order.
history_data(undo, redo) ==
    [status |-> "written",
     undo_stack |-> [i \in 1..Len(undo) |-> to_dict(undo[i])],
     redo_stack |-> [i \in 1..Len(redo) |-> to_dict(redo[i])]]

\* json.load of what json.dump wrote for a command's dict.  A GroupMove dict
\* holds tuples (old_pos, new_pos, the values of child_positions); the dicts
\* of the other classes hold str, int, bool, None, list and dict values only,
\* which come back equal.
json_dict(d) ==
    IF d.type = "GroupMove"
    THEN [type |-> "GroupMove",
          group_id |-> d.group_id,
          old_pos |-> json_value(d.old_pos),
          new_pos |-> json_value(d.new_pos),
          child_positions |->
              [i \in 1..Len(d.child_positions) |->
                  [node_id |-> d.child_positions[i].node_id,
                   pos |-> json_value(d.child_positions[i].pos)]]]
    ELSE d

\* The file json.dump(data, f) leaves, as json.load reads it.
json_dump(data) ==
    [status |-> data.status,
     undo_stack |-> [i \in 1..Len(data.undo_stack) |-> json_dict(data.undo_stack[i])],
     redo_stack |-> [i \in 1..Len(data.redo_stack) |-> json_dict(data.redo_stack[i])]]

\* UndoManager.save_to_file: the file afterwards.  A failure is caught and
\* printed; the caller never sees it.
save_to_file(undo, redo, outcome) ==
    CASE outcome = "ok"          -> json_dump(history_data(undo, redo))
      [] outcome = "open_failed" -> history_file
      [] outcome = "dump_failed" -> TruncatedFile

\* UndoManager._save_history_if_possible: the file afterwards
save_history_if_possible(undo, redo, outcome) ==
    IF is_project_open THEN save_to_file(undo, redo, outcome) ELSE history_file

\* What the step's save did: "none" when save_to_file was not called.
save_io(outcome) == IF is_project_open THEN outcome ELSE "none"

----------------------------------------------------------------------------
(* Deserialization *)

\* An entry of a stack in the file that is not a JSON object (here a string).
JsonString == [json |-> "string"]

\* isinstance(data, dict): only a dict has .get
is_dict(data) == "json" \notin DOMAIN data

\* dict.get(key, default)
get(data, key, default) == IF key \in DOMAIN data THEN data[key] ELSE default

\* The registry of _deserialize_command: kind tag -> class
command_classes ==
    [DescriptionChange        |-> "DescriptionChangeCommand",
     TodoAdd                  |-> "TodoAddCommand",
     TodoRemove               |-> "TodoRemoveCommand",
     TodoEdit                 |-> "TodoEditCommand",
     TodoToggle               |-> "TodoToggleCommand",
     TodoMove                 |-> "TodoMoveCommand",
     TagAdd                   |-> "TagAddCommand",
     TagRemove                |-> "TagRemoveCommand",
     TagRename                |-> "TagRenameCommand",
     TagColorChange           |-> "TagColorChangeCommand",
     TagMove                  |-> "TagMoveCommand",
     NodePosition             |-> "NodePositionCommand",
     AddNode                  |-> "AddNodeCommand",
     RemoveNode               |-> "RemoveNodeCommand",
     AddEdge                  |-> "AddEdgeCommand",
     RemoveEdge               |-> "RemoveEdgeCommand",
     AddGroup                 |-> "AddGroupCommand",
     RemoveGroup              |-> "RemoveGroupCommand",
     GroupMove                |-> "GroupMoveCommand",
     NodeGroupChange          |-> "NodeGroupChangeCommand",
     GlobalEdgeColorChange    |-> "GlobalEdgeColorChangeCommand",
     ModulePaletteColorChange |-> "ModulePaletteColorChangeCommand"]

\* The keys each from_dict reads with data[...]: a missing one is a KeyError.
subscripted ==
    [DescriptionChange        |-> {"old_value", "new_value"},
     TodoAdd                  |-> {"todo_text", "todo_index"},
     TodoRemove               |-> {"todo_index", "todo_text", "is_done"},
     TodoEdit                 |-> {"todo_index", "old_text", "new_text"},
     TodoToggle               |-> {"todo_index", "new_state"},
     TodoMove                 |-> {"from_index", "to_index"},
     TagAdd                   |-> {"tag_name"},
     TagRemove                |-> {"tag_name", "tag_color", "tag_index"},
     TagRename                |-> {"old_name", "new_name"},
     TagColorChange           |-> {"tag_name", "old_color", "new_color"},
     TagMove                  |-> {"from_index", "to_index"},
     NodePosition             |-> {"node_id", "old_x", "old_y", "new_x", "new_y"},
     AddNode                  |-> {"node_data_dict"},
     RemoveNode               |-> {"node_data_dict", "connected_edges"},
     AddEdge                  |-> {"edge_data_dict"},
     RemoveEdge               |-> {"edge_data_dict"},
     AddGroup                 |-> {"group_data_dict"},
     RemoveGroup              |-> {"group_data_dict"},
     GroupMove                |-> {"group_id", "old_pos", "new_pos"},
     NodeGroupChange          |-> {"node_id"},
     GlobalEdgeColorChange    |-> {"old_pipeline_color", "old_reference_color",
                                   "new_pipeline_color", "new_reference_color"},
     ModulePaletteColorChange |-> {"module_type", "old_color", "new_color"}]

\* cls.from_dict(data, context) raises: a key it subscripts is missing, or
\* (GroupMove) tuple() is given something that cannot be iterated.  No
\* from_dict looks at the type of the other values.
from_dict_raises(data) ==
    \/ ~(subscripted[data.type] \subseteq DOMAIN data)
    \/ /\ data.type = "GroupMove"
       /\ ~iterable(data.old_pos) \/ ~iterable(data.new_pos)

\* cls.from_dict(data, context), class by class, when it does not raise
from_dict(data) ==
    CASE data.type = "DescriptionChange" ->
            DescriptionChangeCommand(data.old_value, data.new_value)
      [] data.type = "TodoAdd" ->
            TodoAddCommand(data.todo_text, data.todo_index)
      [] data.type = "TodoRemove" ->
            TodoRemoveCommand(data.todo_index, data.todo_text, data.is_done)
      [] data.type = "TodoEdit" ->
            TodoEditCommand(data.todo_index, data.old_text, data.new_text)
      [] data.type = "TodoToggle" ->
            TodoToggleCommand(data.todo_index, data.new_state)
      [] data.type = "TodoMove" ->
            TodoMoveCommand(data.from_index, data.to_index)
      [] data.type = "TagAdd" ->
            TagAddCommand(data.tag_name, get(data, "tag_index", -1))
      [] data.type = "TagRemove" ->
            TagRemoveCommand(data.tag_name, data.tag_color, data.tag_index)
      [] data.type = "TagRename" ->
            TagRenameCommand(data.old_name, data.new_name)
      [] data.type = "TagColorChange" ->
            TagColorChangeCommand(data.tag_name, data.old_color, data.new_color)
      [] data.type = "TagMove" ->
            TagMoveCommand(data.from_index, data.to_index)
      [] data.type = "NodePosition" ->
            NodePositionCommand(data.node_id, data.old_x, data.old_y,
                                data.new_x, data.new_y)
      [] data.type = "AddNode" ->
            AddNodeCommand(data.node_data_dict)
      [] data.type = "RemoveNode" ->
            RemoveNodeCommand(data.node_data_dict, data.connected_edges)
      [] data.type = "AddEdge" ->
            AddEdgeCommand(data.edge_data_dict)
      [] data.type = "RemoveEdge" ->
            RemoveEdgeCommand(data.edge_data_dict)
      [] data.type = "AddGroup" ->
            AddGroupCommand(data.group_data_dict)
      [] data.type = "RemoveGroup" ->
            RemoveGroupCommand(data.group_data_dict)
      [] data.type = "GroupMove" ->
            GroupMoveCommand(data.group_id,
                             py_tuple(data.old_pos.items),
                             py_tuple(data.new_pos.items),
                             get(data, "child_positions", <<>>),
                             FALSE)
      [] data.type = "NodeGroupChange" ->
            NodeGroupChangeCommand(data.node_id,
                                   get(data, "old_group_id", None),
                                   get(data, "new_group_id", None))
      [] data.type = "GlobalEdgeColorChange" ->
            GlobalEdgeColorChangeCommand(data.old_pipeline_color,
                                         data.old_reference_color,
                                         data.new_pipeline_color,
                                         data.new_reference_color)
      [] data.type = "ModulePaletteColorChange" ->
            ModulePaletteColorChangeCommand(data.module_type, data.old_color,
                                            data.new_color)

\* Mutant of deserialize_command: the registry knows no TodoToggle.
deserialize_command_without_TodoToggle(data) ==
    LET cmd_type == get(data, "type", None)
    IN  IF cmd_type \in DOMAIN command_classes \ {"TodoToggle"} /\ ~from_dict_raises(data)
        THEN <<from_dict(data)>>
        ELSE <<>>

\* UndoManager._deserialize_command for a dict: <<>> stands for None, <<cmd>>
\* for the command.  An unknown or missing tag gives None; an exception of
\* from_dict is caught and gives None.
deserialize_command(data) ==
    LET cmd_type == get(data, "type", None)
    IN  IF cmd_type \in DOMAIN command_classes /\ ~from_dict_raises(data)
        THEN <<from_dict(data)>>
        ELSE <<>>

\* Mutant of deserialize_stack: the loop ends at the first entry that gives None.
RECURSIVE deserialize_stack_until_None(_)
deserialize_stack_until_None(entries) ==
    IF entries = <<>> \/ deserialize_command(Head(entries)) = <<>>
    THEN <<>>
    ELSE deserialize_command(Head(entries)) \o deserialize_stack_until_None(Tail(entries))

\* The loops of load_from_file: the commands of the entries, in order,
\* without those that gave None.
RECURSIVE deserialize_stack(_)
deserialize_stack(entries) ==
    IF entries = <<>>
    THEN <<>>
    ELSE deserialize_command(Head(entries)) \o deserialize_stack(Tail(entries))

ReadOutcomes == {"ok", "read_failed"}

\* How load_from_file ends.  "no_file": the file does not exist.
\* "read_failed": open() raised.  "parse_failed": json.load raised.
\* "entry_failed": _deserialize_command raised on an entry that has no .get.
\* "loaded": both loops ran to their end.
load_result(file, outcome) ==
    IF file.status = "absent" THEN "no_file"
    ELSE IF outcome = "read_failed" THEN "read_failed"
    ELSE IF file.status = "truncated" THEN "parse_failed"
    ELSE IF \E i \in 1..Len(file.undo_stack) : ~is_dict(file.undo_stack[i])
         THEN "entry_failed"
    ELSE IF \E i \in 1..Len(file.redo_stack) : ~is_dict(file.redo_stack[i])
         THEN "entry_failed"
    ELSE "loaded"

----------------------------------------------------------------------------
(* Entities: the dataclasses of src/models.py.  A Python list is           *)
(* py_list(items), a dict is a record, an object a record with its class   *)
(* in cls; None where a list, dict or object is expected is py_none, None  *)
(* where a str is expected is None.                                        *)

py_none == [py |-> "None"]

\* A str where a dict is expected (an entry of a legacy global_tags list).
py_str(value) == [py |-> "str", value |-> value]

\* generate_uuid(): an id no entity has yet
generate_uuid == "uuid4"

\* A str that may name a file is the sequence of the parts of the path
\* ("assets/papers/a.md" is <<"assets", "papers", "a.md">>); "" has none.
empty_str == <<>>

Position(x, y) == [cls |-> "Position", x |-> x, y |-> y]

Snippet(id, type, content, source_label) ==
    [cls |-> "Snippet", id |-> id, type |-> type, content |-> content,
     source_label |-> source_label]

NodeMetadata(title, relative_path_to_md, module_name, module_type) ==
    [cls |-> "NodeMetadata", title |-> title, year |-> "", conference |-> "",
     relative_path_to_md |-> relative_path_to_md, module_name |-> module_name,
     module_type |-> module_type]

NodeData(id, type, position, tags, metadata, snippets) ==
    [cls |-> "NodeData", id |-> id, type |-> type, position |-> position,
     tags |-> tags, metadata |-> metadata, snippets |-> snippets]

EdgeData(id, source_id, target_id) ==
    [cls |-> "EdgeData", id |-> id, source_id |-> source_id, target_id |-> target_id]

GroupData(id, name, position, color, node_ids) ==
    [cls |-> "GroupData", id |-> id, name |-> name, position |-> position,
     width |-> 300, height |-> 200, color |-> color, node_ids |-> node_ids]

\* The default of ProjectData.module_colors
default_module_colors ==
    [input |-> "#4CAF50", process |-> "#9C27B0", decision |-> "#FF9800",
     output |-> "#2196F3"]

ProjectData(global_tags, nodes, edges, groups, todos) ==
    [cls |-> "ProjectData", global_tags |-> global_tags, nodes |-> nodes,
     edges |-> edges, pipeline_initialized |-> FALSE, description |-> "",
     todos |-> todos, pipeline_edge_color |-> "#607D8B",
     reference_edge_color |-> "#4CAF50", dock_layout |-> py_list(<<>>),
     module_colors |-> default_module_colors, groups |-> groups]

EntityClasses ==
    {"Position", "Snippet", "NodeMetadata", "NodeData", "EdgeData", "GroupData",
     "ProjectData"}

\* [f(x) for x in a_list]
list_of(a_list, f(_)) ==
    py_list([i \in 1..Len(a_list.items) |-> f(a_list.items[i])])

\* value.get exists: value is a dict
is_py_dict(value) == "py" \notin DOMAIN value /\ "cls" \notin DOMAIN value

\* "for x in value" runs over the items of a list.  (It also runs over the
\* keys of a dict; the records drawn here hold a list or None where the code
\* iterates.)
is_py_list(value) == "py" \in DOMAIN value /\ value.py = "list"

\* value.copy() exists: value is a list or a dict
has_copy(value) == is_py_list(value) \/ is_py_dict(value)

\* to_dict writes every tag anew from its name, without its color.
tag_to_dict_without_color(t) ==
    [name |-> IF is_py_dict(t) THEN t.name ELSE t.value, color |-> None]

\* An entry of global_tags as ProjectData.to_dict writes it: a copy of a
\* dict, and {"name": t, "color": None} for anything else
tag_to_dict(t) ==
    IF is_py_dict(t)
    THEN t
    ELSE [name |-> IF t.py = "str" THEN t.value ELSE None, color |-> None]

\* to_dict() of the seven classes
RECURSIVE entity_to_dict(_)
entity_to_dict(e) ==
    CASE e.cls = "Position" -> [x |-> e.x, y |-> e.y]
      [] e.cls = "Snippet" ->
            [id |-> e.id, type |-> e.type, content |-> e.content,
             source_label |-> e.source_label]
      [] e.cls = "NodeMetadata" ->
            [title |-> e.title, year |-> e.year, conference |-> e.conference,
             relative_path_to_md |-> e.relative_path_to_md,
             module_name |-> e.module_name, module_type |-> e.module_type]
      [] e.cls = "NodeData" ->
            [id |-> e.id, type |-> e.type,
             position |-> entity_to_dict(e.position),
             tags |-> e.tags,
             metadata |-> entity_to_dict(e.metadata),
             snippets |-> list_of(e.snippets, entity_to_dict)]
      [] e.cls = "EdgeData" ->
            [id |-> e.id, source_id |-> e.source_id, target_id |-> e.target_id]
      [] e.cls = "GroupData" ->
            [id |-> e.id, name |-> e.name,
             position |-> entity_to_dict(e.position),
             width |-> e.width, height |-> e.height, color |-> e.color,
             node_ids |-> e.node_ids]
      [] e.cls = "ProjectData" ->
            [global_tags |-> list_of(e.global_tags, tag_to_dict),
             nodes |-> list_of(e.nodes, entity_to_dict),
             edges |-> list_of(e.edges, entity_to_dict),
             groups |-> list_of(e.groups, entity_to_dict),
             pipeline_initialized |-> e.pipeline_initialized,
             description |-> e.description,
             todos |-> e.todos,
             pipeline_edge_color |-> e.pipeline_edge_color,
             reference_edge_color |-> e.reference_edge_color,
             dock_layout |-> e.dock_layout,
             module_colors |-> e.module_colors]

\* {}: the default of data.get("position", {}) and data.get("metadata", {})
empty_dict == <<>>

\* from_dict(data) raises: data.get of a value that is not a dict
\* (AttributeError), None.copy() (AttributeError), "for x in None" (TypeError).
RECURSIVE entity_from_dict_raises(_, _)
entity_from_dict_raises(cls, data) ==
    LET each_raises(value, item_cls) ==
            \/ ~is_py_list(value)
            \/ \E i \in 1..Len(value.items) :
                   entity_from_dict_raises(item_cls, value.items[i])
    IN  \/ ~is_py_dict(data)
        \/ /\ cls = "NodeData"
           /\ \/ entity_from_dict_raises("Position", get(data, "position", empty_dict))
              \/ ~has_copy(get(data, "tags", py_list(<<>>)))
              \/ entity_from_dict_raises("NodeMetadata", get(data, "metadata", empty_dict))
              \/ each_raises(get(data, "snippets", py_list(<<>>)), "Snippet")
        \/ /\ cls = "GroupData"
           /\ \/ entity_from_dict_raises("Position", get(data, "position", empty_dict))
              \/ ~has_copy(get(data, "node_ids", py_list(<<>>)))
        \/ /\ cls = "ProjectData"
           /\ \/ ~is_py_list(get(data, "global_tags", py_list(<<>>)))
              \/ each_raises(get(data, "nodes", py_list(<<>>)), "NodeData")
              \/ each_raises(get(data, "edges", py_list(<<>>)), "EdgeData")
              \/ each_raises(get(data, "groups", py_list(<<>>)), "GroupData")

\* from_dict keeps a str entry as it is.
migrate_tag_keeps_str(t) == t

\* An entry of global_tags as ProjectData.from_dict keeps it
migrate_tag(t) ==
    IF "py" \in DOMAIN t /\ t.py = "str"
    THEN [name |-> t.value, color |-> None]
    ELSE t

\* from_dict(data) of the seven classes, where it returns
RECURSIVE entity_from_dict(_, _)
entity_from_dict(cls, data) ==
    LET Position_from_dict(d) == entity_from_dict("Position", d)
        NodeMetadata_from_dict(d) == entity_from_dict("NodeMetadata", d)
        Snippet_from_dict(d) == entity_from_dict("Snippet", d)
        NodeData_from_dict(d) == entity_from_dict("NodeData", d)
        EdgeData_from_dict(d) == entity_from_dict("EdgeData", d)
        GroupData_from_dict(d) == entity_from_dict("GroupData", d)
    IN
    CASE cls = "Position" ->
            [cls |-> "Position", x |-> get(data, "x", 0), y |-> get(data, "y", 0)]
      [] cls = "Snippet" ->
            [cls |-> "Snippet",
             id |-> get(data, "id", generate_uuid),
             type |-> get(data, "type", "text"),
             content |-> get(data, "content", empty_str),
             source_label |-> get(data, "source_label", "")]
      [] cls = "NodeMetadata" ->
            [cls |-> "NodeMetadata",
             title |-> get(data, "title", ""),
             year |-> get(data, "year", ""),
             conference |-> get(data, "conference", ""),
             relative_path_to_md |-> get(data, "relative_path_to_md", empty_str),
             module_name |-> get(data, "module_name", ""),
             module_type |-> get(data, "module_type", "")]
      [] cls = "NodeData" ->
            [cls |-> "NodeData",
             id |-> get(data, "id", generate_uuid),
             type |-> get(data, "type", "pipeline_module"),
             position |-> Position_from_dict(get(data, "position", empty_dict)),
             tags |-> get(data, "tags", py_list(<<>>)),
             metadata |-> NodeMetadata_from_dict(get(data, "metadata", empty_dict)),
             snippets |-> list_of(get(data, "snippets", py_list(<<>>)), Snippet_from_dict)]
      [] cls = "EdgeData" ->
            [cls |-> "EdgeData",
             id |-> get(data, "id", generate_uuid),
             source_id |-> get(data, "source_id", ""),
             target_id |-> get(data, "target_id", "")]
      [] cls = "GroupData" ->
            [cls |-> "GroupData",
             id |-> get(data, "id", generate_uuid),
             name |-> get(data, "name", "Group"),
             position |-> Position_from_dict(get(data, "position", empty_dict)),
             width |-> get(data, "width", 300),
             height |-> get(data, "height", 200),
             color |-> get(data, "color", "#78909C"),
             node_ids |-> get(data, "node_ids", py_list(<<>>))]
      [] cls = "ProjectData" ->
            [cls |-> "ProjectData",
             global_tags |-> list_of(get(data, "global_tags", py_list(<<>>)), migrate_tag),
             nodes |-> list_of(get(data, "nodes", py_list(<<>>)), NodeData_from_dict),
             edges |-> list_of(get(data, "edges", py_list(<<>>)), EdgeData_from_dict),
             groups |-> list_of(get(data, "groups", py_list(<<>>)), GroupData_from_dict),
             pipeline_initialized |-> get(data, "pipeline_initialized", FALSE),
             description |-> get(data, "description", ""),
             todos |-> get(data, "todos", py_list(<<>>)),
             pipeline_edge_color |-> get(data, "pipeline_edge_color", "#607D8B"),
             reference_edge_color |-> get(data, "reference_edge_color", "#4CAF50"),
             dock_layout |-> get(data, "dock_layout", py_list(<<>>)),
             module_colors |-> get(data, "module_colors", default_module_colors)]

\* ProjectData(): the project that create_project makes
new_project_data ==
    ProjectData(py_list(<<>>), py_list(<<>>), py_list(<<>>), py_list(<<>>),
                py_list(<<>>))

\* context.project_dock: whether the context has one, and its todo list
dock(present, todos) == [present |-> present, todos |-> todos]

NoResult == [op |-> "none"]

\* No entity or dict is in hand, no asset file is on disk, the dock has no
\* todos, and project_data goes with current_project_path (create_project,
\* open_project and close_project set the two together).
project_at_rest ==
    /\ project_data =
           IF current_project_path = None THEN py_none ELSE new_project_data
    /\ asset_files = {}
    /\ project_dock = dock(TRUE, <<>>)
    /\ entity = py_none
    /\ record = py_none
    /\ returned = NoResult

----------------------------------------------------------------------------
(* Observations of a step *)

NoReturn == [op |-> "none", value |-> "none"]

returns(op, value) == [op |-> op, value |-> value]

\* command.<method>() was started
call(command, method) == [command |-> command, method |-> method]

\* An undo()/redo()/execute() call whose command method is running.
frame(op, command) == [op |-> op, command |-> command]

\* UndoManager.can_undo / can_redo
can_undo == Len(undo_stack) > 0

can_redo == Len(redo_stack) > 0

in_progress(op) ==
    call_stack # <<>> /\ top(call_stack).op = op

----------------------------------------------------------------------------
(* The scene the canvas commands act on: self.context.scene *)

NodeIds == {"n1", "n2"}

GroupIds == {"g1", "g2"}

Coords == {0, 1}

\* scene._nodes and scene._waypoints, looked up one after the other by every
\* command, are one map here; an id without an item has present = FALSE.
\* A node item's pos() and its node_data.position are written together and
\* are one value; group_color is what set_group_color was last given.
node_item(present, pos, group_color) ==
    [present |-> present, pos |-> pos, group_color |-> group_color]

\* scene._groups: a group item with its group_data (position, node_ids, color)
group_item(present, pos, node_ids, color) ==
    [present |-> present, pos |-> pos, node_ids |-> node_ids, color |-> color]

\* node_id in node_ids
contains(node_ids, node_id) ==
    \E i \in 1..Len(node_ids) : node_ids[i] = node_id

\* list.remove(node_id): the list without the first occurrence of node_id
remove(node_ids, node_id) ==
    LET first == CHOOSE i \in 1..Len(node_ids) :
                     /\ node_ids[i] = node_id
                     /\ \A j \in 1..(i - 1) : node_ids[j] # node_id
    IN  SubSeq(node_ids, 1, first - 1) \o SubSeq(node_ids, first + 1, Len(node_ids))

\* The members of a group as a set
members(sc, group_id) ==
    {sc.groups[group_id].node_ids[i] : i \in 1..Len(sc.groups[group_id].node_ids)}

NoCommand == [cls |-> "None"]

----------------------------------------------------------------------------
(* NodePositionCommand *)

\* NodePositionCommand.execute / undo: the node, when the scene has it, is
\* put at (x, y).
set_node_pos(sc, node_id, x, y) ==
    IF sc.nodes[node_id].present
    THEN [sc EXCEPT !.nodes[node_id].pos = <<x, y>>]
    ELSE sc

NodePosition_execute(cmd, sc) == set_node_pos(sc, cmd.node_id, cmd.new_x, cmd.new_y)

\* Mutant of NodePosition_undo: the node stays where it is.
NodePosition_undo_stays(cmd, sc) == sc

NodePosition_undo(cmd, sc) == set_node_pos(sc, cmd.node_id, cmd.old_x, cmd.old_y)

----------------------------------------------------------------------------
(* GroupMoveCommand *)

\* Mutant of post_init_child_positions: the positions are recorded as they
\* are after the drag.
post_init_child_positions_after_drag(sc, group_id, old_pos, new_pos) ==
    IF ~sc.groups[group_id].present
    THEN <<>>
    ELSE LET found == SelectSeq(sc.groups[group_id].node_ids,
                                LAMBDA node_id : sc.nodes[node_id].present)
         IN  [i \in 1..Len(found) |->
                 [node_id |-> found[i],
                  pos |-> py_tuple(<<sc.nodes[found[i]].pos[1],
                                     sc.nodes[found[i]].pos[2]>>)]]

\* GroupMoveCommand.__post_init__ with child_positions left None: for every
\* node of the group that the scene has, in the order of node_ids, its
\* position now less the distance from old_pos to new_pos.
post_init_child_positions(sc, group_id, old_pos, new_pos) ==
    IF ~sc.groups[group_id].present
    THEN <<>>
    ELSE LET dx == new_pos.items[1] - old_pos.items[1]
             dy == new_pos.items[2] - old_pos.items[2]
             found == SelectSeq(sc.groups[group_id].node_ids,
                                LAMBDA node_id : sc.nodes[node_id].present)
         IN  [i \in 1..Len(found) |->
                 [node_id |-> found[i],
                  pos |-> py_tuple(<<sc.nodes[found[i]].pos[1] - dx,
                                     sc.nodes[found[i]].pos[2] - dy>>)]]

\* GroupMoveCommand._move_to(target_pos): the group, when the scene has it, is
\* put at target_pos, and every node of child_positions that the scene has is
\* put at its recorded position plus the distance from old_pos to target_pos.
move_to(cmd, sc, target_pos) ==
    IF ~sc.groups[cmd.group_id].present
    THEN sc
    ELSE LET dx == target_pos.items[1] - cmd.old_pos.items[1]
             dy == target_pos.items[2] - cmd.old_pos.items[2]
             snapped(node_id) ==
                 \E i \in 1..Len(cmd.child_positions) :
                     cmd.child_positions[i].node_id = node_id
             recorded(node_id) ==
                 cmd.child_positions[
                     CHOOSE i \in 1..Len(cmd.child_positions) :
                         cmd.child_positions[i].node_id = node_id].pos
         IN  [sc EXCEPT
                !.groups[cmd.group_id].pos = <<target_pos.items[1], target_pos.items[2]>>,
                !.nodes = [node_id \in NodeIds |->
                    IF sc.nodes[node_id].present /\ snapped(node_id)
                    THEN [sc.nodes[node_id] EXCEPT
                            !.pos = <<recorded(node_id).items[1] + dx,
                                      recorded(node_id).items[2] + dy>>]
                    ELSE sc.nodes[node_id]]]

\* Mutant of GroupMove_execute: the first execute() moves too.
GroupMove_execute_always_moves(cmd, sc) ==
    [command |-> [cmd EXCEPT !.first_execute = FALSE],
     scene   |-> move_to(cmd, sc, cmd.new_pos)]

\* GroupMoveCommand.execute: the command and the scene afterwards.
GroupMove_execute(cmd, sc) ==
    IF cmd.first_execute
    THEN [command |-> [cmd EXCEPT !.first_execute = FALSE], scene |-> sc]
    ELSE [command |-> cmd, scene |-> move_to(cmd, sc, cmd.new_pos)]

\* GroupMoveCommand.undo
GroupMove_undo(cmd, sc) == move_to(cmd, sc, cmd.old_pos)

----------------------------------------------------------------------------
(* NodeGroupChangeCommand *)

\* Mutant of apply_grouping: the node is not taken out of the group it leaves.
apply_grouping_keeps_old(sc, node_id, from_group_id, to_group_id) ==
    LET added ==
            IF /\ to_group_id # None
               /\ sc.groups[to_group_id].present
               /\ ~contains(sc.groups[to_group_id].node_ids, node_id)
            THEN [sc EXCEPT !.groups[to_group_id].node_ids = Append(@, node_id)]
            ELSE sc
    IN  added

\* _apply_grouping without the test "node_id not in to_group.node_ids"
apply_grouping_appends_always(sc, node_id, from_group_id, to_group_id) ==
    LET removed ==
            IF /\ from_group_id # None
               /\ sc.groups[from_group_id].present
               /\ contains(sc.groups[from_group_id].node_ids, node_id)
            THEN [sc EXCEPT !.groups[from_group_id].node_ids = remove(@, node_id)]
            ELSE sc
        added ==
            IF /\ to_group_id # None
               /\ removed.groups[to_group_id].present
            THEN [removed EXCEPT !.groups[to_group_id].node_ids = Append(@, node_id)]
            ELSE removed
    IN  IF ~added.nodes[node_id].present THEN added
        ELSE IF to_group_id = None
        THEN [added EXCEPT !.nodes[node_id].group_color = None]
        ELSE IF added.groups[to_group_id].present
        THEN [added EXCEPT !.nodes[node_id].group_color = added.groups[to_group_id].color]
        ELSE added

\* NodeGroupChangeCommand._apply_grouping(from_group_id, to_group_id)
apply_grouping(sc, node_id, from_group_id, to_group_id) ==
    LET removed ==
            IF /\ from_group_id # None
               /\ sc.groups[from_group_id].present
               /\ contains(sc.groups[from_group_id].node_ids, node_id)
            THEN [sc EXCEPT !.groups[from_group_id].node_ids = remove(@, node_id)]
            ELSE sc
        added ==
            IF /\ to_group_id # None
               /\ removed.groups[to_group_id].present
               /\ ~contains(removed.groups[to_group_id].node_ids, node_id)
            THEN [removed EXCEPT !.groups[to_group_id].node_ids = Append(@, node_id)]
            ELSE removed
    IN  IF ~added.nodes[node_id].present THEN added
        ELSE IF to_group_id = None
        THEN [added EXCEPT !.nodes[node_id].group_color = None]
        ELSE IF added.groups[to_group_id].present
        THEN [added EXCEPT !.nodes[node_id].group_color = added.groups[to_group_id].color]
        ELSE added

NodeGroupChange_execute(cmd, sc) ==
    apply_grouping(sc, cmd.node_id, cmd.old_group_id, cmd.new_group_id)

NodeGroupChange_undo(cmd, sc) ==
    apply_grouping(sc, cmd.node_id, cmd.new_group_id, cmd.old_group_id)

----------------------------------------------------------------------------
(* A canvas command's execute() and undo(), called on the command itself *)

\* command.execute(): the command and the scene afterwards
command_execute(cmd, sc) ==
    CASE cmd.cls = "GroupMoveCommand" -> GroupMove_execute(cmd, sc)
      [] cmd.cls = "NodePositionCommand" ->
            [command |-> cmd, scene |-> NodePosition_execute(cmd, sc)]
      [] cmd.cls = "NodeGroupChangeCommand" ->
            [command |-> cmd, scene |-> NodeGroupChange_execute(cmd, sc)]

\* The command object after its execute() has returned: its fields do not
\* depend on the scene.
executed(cmd) ==
    IF cmd.cls = "GroupMoveCommand"
    THEN GroupMove_execute(cmd, scene).command
    ELSE cmd

\* command.undo(): the scene afterwards (no undo() changes its command)
command_undo(cmd, sc) ==
    CASE cmd.cls = "GroupMoveCommand" -> GroupMove_undo(cmd, sc)
      [] cmd.cls = "NodePositionCommand" -> NodePosition_undo(cmd, sc)
      [] cmd.cls = "NodeGroupChangeCommand" -> NodeGroupChange_undo(cmd, sc)

----------------------------------------------------------------------------
(* UndoManager.execute *)

\* Mutant of execute: the guard is not looked at.
execute_ignores_guard(command) ==
    /\ call_stack' = Append(call_stack, frame("execute", command))
    /\ calls' = <<call(command, "execute")>>
    /\ io' = "none"
    /\ ret' = NoReturn
    /\ UNCHANGED <<undo_stack, redo_stack, is_undoing,
                   context_has_project_manager, current_project_path,
                   history_file>>

\* execute(command) up to the start of command.execute(): returns at once
\* while the guard is set, else starts applying the command.
execute(command) ==
    IF is_undoing
    THEN /\ calls' = <<>>
         /\ io' = "none"
         /\ ret' = returns("execute", "None")
         /\ UNCHANGED <<undo_stack, redo_stack, is_undoing, call_stack,
                        context_has_project_manager, current_project_path,
                        history_file>>
    ELSE /\ call_stack' = Append(call_stack, frame("execute", command))
         /\ calls' = <<call(command, "execute")>>
         /\ io' = "none"
         /\ ret' = NoReturn
         /\ UNCHANGED <<undo_stack, redo_stack, is_undoing,
                        context_has_project_manager, current_project_path,
                        history_file>>

\* Mutant of execute_returns: the redo stack is not cleared.
execute_returns_keeps_redo(outcome) ==
    /\ in_progress("execute")
    /\ LET command  == executed(top(call_stack).command)
           appended == Append(undo_stack, command)
           capped   == IF Len(appended) > MAX_HISTORY THEN pop0(appended) ELSE appended
       IN  /\ undo_stack' = capped
           /\ redo_stack' = redo_stack
           /\ history_file' = save_history_if_possible(capped, redo_stack, outcome)
    /\ io' = save_io(outcome)
    /\ call_stack' = pop(call_stack)
    /\ calls' = <<>>
    /\ ret' = returns("execute", "None")
    /\ UNCHANGED <<is_undoing, context_has_project_manager, current_project_path>>

\* Mutant of execute_returns: the cap is not enforced.
execute_returns_uncapped(outcome) ==
    /\ in_progress("execute")
    /\ LET command  == executed(top(call_stack).command)
           appended == Append(undo_stack, command)
       IN  /\ undo_stack' = appended
           /\ redo_stack' = <<>>
           /\ history_file' = save_history_if_possible(appended, <<>>, outcome)
    /\ io' = save_io(outcome)
    /\ call_stack' = pop(call_stack)
    /\ calls' = <<>>
    /\ ret' = returns("execute", "None")
    /\ UNCHANGED <<is_undoing, context_has_project_manager, current_project_path>>

\* Mutant of execute_returns: over the cap, the newest entry is dropped.
execute_returns_evicts_newest(outcome) ==
    /\ in_progress("execute")
    /\ LET command  == executed(top(call_stack).command)
           appended == Append(undo_stack, command)
           capped   == IF Len(appended) > MAX_HISTORY THEN pop(appended) ELSE appended
       IN  /\ undo_stack' = capped
           /\ redo_stack' = <<>>
           /\ history_file' = save_history_if_possible(capped, <<>>, outcome)
    /\ io' = save_io(outcome)
    /\ call_stack' = pop(call_stack)
    /\ calls' = <<>>
    /\ ret' = returns("execute", "None")
    /\ UNCHANGED <<is_undoing, context_has_project_manager, current_project_path>>

\* command.execute() returned: append, cap, clear the redo stack, save.
execute_returns(outcome) ==
    /\ in_progress("execute")
    /\ LET command  == executed(top(call_stack).command)
           appended == Append(undo_stack, command)
           capped   == IF Len(appended) > MAX_HISTORY THEN pop0(appended) ELSE appended
       IN  /\ undo_stack' = capped
           /\ redo_stack' = <<>>
           /\ history_file' = save_history_if_possible(capped, <<>>, outcome)
    /\ io' = save_io(outcome)
    /\ call_stack' = pop(call_stack)
    /\ calls' = <<>>
    /\ ret' = returns("execute", "None")
    /\ UNCHANGED <<is_undoing, context_has_project_manager, current_project_path>>

\* command.execute() raised: the exception leaves execute() before the append.
execute_raises ==
    /\ in_progress("execute")
    /\ call_stack' = pop(call_stack)
    /\ calls' = <<>>
    /\ io' = "none"
    /\ ret' = returns("execute", "raise")
    /\ UNCHANGED <<undo_stack, redo_stack, is_undoing,
                   context_has_project_manager, current_project_path, history_file>>

----------------------------------------------------------------------------
(* UndoManager.undo *)

\* Mutant of undo: the oldest entry is taken instead of the newest.
undo_pops_oldest ==
    IF ~can_undo
    THEN /\ calls' = <<>>
         /\ io' = "none"
         /\ ret' = returns("undo", "False")
         /\ UNCHANGED <<undo_stack, redo_stack, is_undoing, call_stack,
                        context_has_project_manager, current_project_path,
                        history_file>>
    ELSE /\ is_undoing' = TRUE
         /\ undo_stack' = pop0(undo_stack)
         /\ call_stack' = Append(call_stack, frame("undo", Head(undo_stack)))
         /\ calls' = <<call(Head(undo_stack), "undo")>>
         /\ io' = "none"
         /\ ret' = NoReturn
         /\ UNCHANGED <<redo_stack, context_has_project_manager,
                        current_project_path, history_file>>

\* Mutant of undo: an empty undo stack is reported as a success.
undo_reports_success ==
    IF ~can_undo
    THEN /\ calls' = <<>>
         /\ io' = "none"
         /\ ret' = returns("undo", "True")
         /\ UNCHANGED <<undo_stack, redo_stack, is_undoing, call_stack,
                        context_has_project_manager, current_project_path,
                        history_file>>
    ELSE /\ is_undoing' = TRUE
         /\ undo_stack' = pop(undo_stack)
         /\ call_stack' = Append(call_stack, frame("undo", top(undo_stack)))
         /\ calls' = <<call(top(undo_stack), "undo")>>
         /\ io' = "none"
         /\ ret' = NoReturn
         /\ UNCHANGED <<redo_stack, context_has_project_manager,
                        current_project_path, history_file>>

\* undo() up to the start of command.undo().
undo ==
    IF ~can_undo
    THEN /\ calls' = <<>>
         /\ io' = "none"
         /\ ret' = returns("undo", "False")
         /\ UNCHANGED <<undo_stack, redo_stack, is_undoing, call_stack,
                        context_has_project_manager, current_project_path,
                        history_file>>
    ELSE /\ is_undoing' = TRUE
         /\ undo_stack' = pop(undo_stack)
         /\ call_stack' = Append(call_stack, frame("undo", top(undo_stack)))
         /\ calls' = <<call(top(undo_stack), "undo")>>
         /\ io' = "none"
         /\ ret' = NoReturn
         /\ UNCHANGED <<redo_stack, context_has_project_manager,
                        current_project_path, history_file>>

\* command.undo() returned: push to the redo stack, clear the guard, save.
undo_returns(outcome) ==
    /\ in_progress("undo")
    /\ LET command == top(call_stack).command
           pushed  == Append(redo_stack, command)
       IN  /\ redo_stack' = pushed
           /\ history_file' = save_history_if_possible(undo_stack, pushed, outcome)
    /\ is_undoing' = FALSE
    /\ io' = save_io(outcome)
    /\ call_stack' = pop(call_stack)
    /\ calls' = <<>>
    /\ ret' = returns("undo", "True")
    /\ UNCHANGED <<undo_stack, context_has_project_manager, current_project_path>>

\* Mutant of undo_raises: no finally clause, the guard stays set.
undo_raises_keeps_guard ==
    /\ in_progress("undo")
    /\ call_stack' = pop(call_stack)
    /\ calls' = <<>>
    /\ io' = "none"
    /\ ret' = returns("undo", "raise")
    /\ UNCHANGED <<undo_stack, redo_stack, is_undoing, context_has_project_manager,
                   current_project_path, history_file>>

\* command.undo() raised: the finally clause clears the guard, nothing is
\* pushed or saved, and the exception leaves undo().
undo_raises ==
    /\ in_progress("undo")
    /\ is_undoing' = FALSE
    /\ call_stack' = pop(call_stack)
    /\ calls' = <<>>
    /\ io' = "none"
    /\ ret' = returns("undo", "raise")
    /\ UNCHANGED <<undo_stack, redo_stack, context_has_project_manager,
                   current_project_path, history_file>>

----------------------------------------------------------------------------
(* UndoManager.redo *)

\* Mutant of redo: the oldest entry is taken instead of the newest.
redo_pops_oldest ==
    IF ~can_redo
    THEN /\ calls' = <<>>
         /\ io' = "none"
         /\ ret' = returns("redo", "False")
         /\ UNCHANGED <<undo_stack, redo_stack, is_undoing, call_stack,
                        context_has_project_manager, current_project_path,
                        history_file>>
    ELSE /\ is_undoing' = TRUE
         /\ redo_stack' = pop0(redo_stack)
         /\ call_stack' = Append(call_stack, frame("redo", Head(redo_stack)))
         /\ calls' = <<call(Head(redo_stack), "execute")>>
         /\ io' = "none"
         /\ ret' = NoReturn
         /\ UNCHANGED <<undo_stack, context_has_project_manager,
                        current_project_path, history_file>>

\* redo() up to the start of command.execute().
redo ==
    IF ~can_redo
    THEN /\ calls' = <<>>
         /\ io' = "none"
         /\ ret' = returns("redo", "False")
         /\ UNCHANGED <<undo_stack, redo_stack, is_undoing, call_stack,
                        context_has_project_manager, current_project_path,
                        history_file>>
    ELSE /\ is_undoing' = TRUE
         /\ redo_stack' = pop(redo_stack)
         /\ call_stack' = Append(call_stack, frame("redo", top(redo_stack)))
         /\ calls' = <<call(top(redo_stack), "execute")>>
         /\ io' = "none"
         /\ ret' = NoReturn
         /\ UNCHANGED <<undo_stack, context_has_project_manager,
                        current_project_path, history_file>>

\* command.execute() returned: push to the undo stack, clear the guard, save.
redo_returns(outcome) ==
    /\ in_progress("redo")
    /\ LET command == executed(top(call_stack).command)
           pushed  == Append(undo_stack, command)
       IN  /\ undo_stack' = pushed
           /\ history_file' = save_history_if_possible(pushed, redo_stack, outcome)
    /\ is_undoing' = FALSE
    /\ io' = save_io(outcome)
    /\ call_stack' = pop(call_stack)
    /\ calls' = <<>>
    /\ ret' = returns("redo", "True")
    /\ UNCHANGED <<redo_stack, context_has_project_manager, current_project_path>>

\* command.execute() raised inside redo().
redo_raises ==
    /\ in_progress("redo")
    /\ is_undoing' = FALSE
    /\ call_stack' = pop(call_stack)
    /\ calls' = <<>>
    /\ io' = "none"
    /\ ret' = returns("redo", "raise")
    /\ UNCHANGED <<undo_stack, redo_stack, context_has_project_manager,
                   current_project_path, history_file>>

----------------------------------------------------------------------------
(* UndoManager.clear *)

\* Mutant of clear: only the undo stack is emptied.
clear_keeps_redo ==
    /\ undo_stack' = <<>>
    /\ redo_stack' = redo_stack
    /\ calls' = <<>>
    /\ io' = "none"
    /\ ret' = returns("clear", "None")
    /\ UNCHANGED <<is_undoing, call_stack, context_has_project_manager,
                   current_project_path, history_file>>

\* clear(): both lists are emptied; nothing is called and nothing is saved.
clear ==
    /\ undo_stack' = <<>>
    /\ redo_stack' = <<>>
    /\ calls' = <<>>
    /\ io' = "none"
    /\ ret' = returns("clear", "None")
    /\ UNCHANGED <<is_undoing, call_stack, context_has_project_manager,
                   current_project_path, history_file>>

----------------------------------------------------------------------------
(* UndoManager.save_to_file called by the application, UndoManager.load_from_file *)

\* save_to_file(project_path), called directly: the stacks stay as they are.
save(outcome) ==
    /\ history_file' = save_to_file(undo_stack, redo_stack, outcome)
    /\ io' = outcome
    /\ calls' = <<>>
    /\ ret' = returns("save_to_file", "None")
    /\ UNCHANGED <<undo_stack, redo_stack, is_undoing, call_stack,
                   context_has_project_manager, current_project_path>>

\* load_from_file(project_path): without a file, clear(); with a file whose
\* reading, parsing or deserializing raises, a warning and clear(); else both
\* stacks are replaced by what the loops deserialized.  It returns None in
\* every case.
load_from_file(outcome) ==
    /\ LET result == load_result(history_file, outcome)
       IN  /\ io' = result
           /\ undo_stack' =
                  IF result = "loaded" THEN deserialize_stack(history_file.undo_stack)
                  ELSE <<>>
           /\ redo_stack' =
                  IF result = "loaded" THEN deserialize_stack(history_file.redo_stack)
                  ELSE <<>>
    /\ calls' = <<>>
    /\ ret' = returns("load_from_file", "None")
    /\ UNCHANGED <<is_undoing, call_stack, context_has_project_manager,
                   current_project_path, history_file>>

----------------------------------------------------------------------------
(* Canvas commands constructed and called on their own *)

NoSnapshot == [kind |-> "none"]

\* The user has dragged a group and GroupMoveCommand(context, group_id,
\* old_pos, new_pos) is constructed: the drag has put the group at new_pos and
\* moved every node of the group that the scene has by the same distance.
drag_group(group_id, new_pos) ==
    /\ constructed = NoCommand
    /\ scene.groups[group_id].present
    /\ LET old_pos == scene.groups[group_id].pos
           dx == new_pos[1] - old_pos[1]
           dy == new_pos[2] - old_pos[2]
           dragged ==
               [scene EXCEPT
                  !.groups[group_id].pos = new_pos,
                  !.nodes = [node_id \in NodeIds |->
                      IF /\ scene.nodes[node_id].present
                         /\ contains(scene.groups[group_id].node_ids, node_id)
                      THEN [scene.nodes[node_id] EXCEPT
                              !.pos = <<@[1] + dx, @[2] + dy>>]
                      ELSE scene.nodes[node_id]]]
       IN  /\ scene' = dragged
           /\ constructed' =
                  GroupMoveCommand(group_id, py_tuple(old_pos), py_tuple(new_pos),
                      post_init_child_positions(dragged, group_id,
                                                py_tuple(old_pos), py_tuple(new_pos)),
                      TRUE)
           /\ snapshot' = [kind |-> "drag", before |-> scene, after |-> dragged]
    /\ log' = <<>>
    /\ UNCHANGED manager_vars

\* NodePositionCommand(context, node_id, old_x, old_y, new_x, new_y) is
\* constructed.
new_node_position(node_id, old_pos, new_pos) ==
    /\ constructed = NoCommand
    /\ constructed' = NodePositionCommand(node_id, old_pos[1], old_pos[2],
                                          new_pos[1], new_pos[2])
    /\ snapshot' = [kind |-> "constructed", before |-> scene, after |-> scene]
    /\ log' = <<>>
    /\ UNCHANGED <<scene, manager_vars>>

\* NodeGroupChangeCommand(context, node_id, old_group_id, new_group_id) is
\* constructed.
new_node_group_change(node_id, old_group_id, new_group_id) ==
    /\ constructed = NoCommand
    /\ constructed' = NodeGroupChangeCommand(node_id, old_group_id, new_group_id)
    /\ snapshot' = [kind |-> "constructed", before |-> scene, after |-> scene]
    /\ log' = <<>>
    /\ UNCHANGED <<scene, manager_vars>>

\* constructed.execute()
apply ==
    /\ constructed # NoCommand
    /\ constructed' = command_execute(constructed, scene).command
    /\ scene' = command_execute(constructed, scene).scene
    /\ log' = Append(log, "execute")
    /\ UNCHANGED <<snapshot, manager_vars>>

\* constructed.undo()
reverse ==
    /\ constructed # NoCommand
    /\ scene' = command_undo(constructed, scene)
    /\ log' = Append(log, "undo")
    /\ UNCHANGED <<constructed, snapshot, manager_vars>>

\* The command is written to the history file and read back: to_dict,
\* json.dump, json.load, _deserialize_command.
reload ==
    /\ constructed # NoCommand
    /\ constructed' = deserialize_command(json_dict(to_dict(constructed)))[1]
    /\ log' = Append(log, "reload")
    /\ UNCHANGED <<scene, snapshot, manager_vars>>

----------------------------------------------------------------------------
(* TodoToggleCommand constructed and called on its own *)

\* project_dock.set_todo_status(index, state): the done flag of the todo at
\* index (counted from 0) becomes state.  The commands drawn address a todo
\* of the list.
set_todo_status(d, index, state) ==
    [d EXCEPT !.todos[index + 1].done = state]

\* TodoToggleCommand.execute
TodoToggle_execute(cmd, d) ==
    IF d.present THEN set_todo_status(d, cmd.todo_index, cmd.new_state) ELSE d

\* TodoToggleCommand.undo
TodoToggle_undo(cmd, d) ==
    IF d.present THEN set_todo_status(d, cmd.todo_index, ~cmd.new_state) ELSE d

\* TodoToggleCommand(context, todo_index, new_state) is constructed.
new_todo_toggle(todo_index, new_state) ==
    /\ constructed = NoCommand
    /\ constructed' = TodoToggleCommand(todo_index, new_state)
    /\ snapshot' = [kind |-> "constructed", before |-> project_dock,
                    after |-> project_dock]
    /\ log' = <<>>
    /\ UNCHANGED <<scene, manager_vars, project_data, asset_files, project_dock,
                   entity, record, returned>>

\* constructed.execute()
apply_todo ==
    /\ constructed # NoCommand
    /\ project_dock' = TodoToggle_execute(constructed, project_dock)
    /\ log' = Append(log, "execute")
    /\ UNCHANGED <<scene, constructed, snapshot, manager_vars, project_data,
                   asset_files, entity, record, returned>>

\* constructed.undo()
reverse_todo ==
    /\ constructed # NoCommand
    /\ project_dock' = TodoToggle_undo(constructed, project_dock)
    /\ log' = Append(log, "undo")
    /\ UNCHANGED <<scene, constructed, snapshot, manager_vars, project_data,
                   asset_files, entity, record, returned>>

----------------------------------------------------------------------------
(* Entities written to a dict and read from one *)

\* entity.to_dict()
entity_to_dict_call ==
    /\ entity # py_none
    /\ record' = entity_to_dict(entity)
    /\ returned' = [op |-> "to_dict", cls |-> entity.cls, raised |-> FALSE,
                    source |-> "object"]
    /\ UNCHANGED <<entity, project_data, asset_files, project_dock,
                   manager_vars, scene_vars>>

\* cls.from_dict(record): the object it returns is in hand afterwards, unless
\* it raises.  source tells whether record is what to_dict() of an object of
\* this class has just returned.
entity_from_dict_call(cls) ==
    /\ entity' = IF entity_from_dict_raises(cls, record)
                 THEN entity
                 ELSE entity_from_dict(cls, record)
    /\ returned' = [op |-> "from_dict", cls |-> cls,
                    raised |-> entity_from_dict_raises(cls, record),
                    source |-> IF returned.op = "to_dict" /\ returned.cls = cls
                               THEN "to_dict" ELSE "other"]
    /\ UNCHANGED <<record, project_data, asset_files, project_dock,
                   manager_vars, scene_vars>>

----------------------------------------------------------------------------
(* ProjectManager: validation and the asset files (src/utils.py) *)

\* ProjectManager.is_project_open
project_is_open == current_project_path # None

\* f"assets/papers/{file.name}" and f"assets/images/{file.name}" of the files
\* of the two directories
papers_files(files) == {file \in files : file[2] = "papers"}

images_files(files) == {file \in files : file[2] = "images"}

\* The two loops of get_referenced_assets, over the nodes from node i on and
\* over the snippets of a node from snippet j on.
RECURSIVE snippet_image_paths(_, _)
snippet_image_paths(snippets, j) ==
    IF j > Len(snippets)
    THEN {}
    ELSE (IF snippets[j].type = "image" /\ snippets[j].content # empty_str
          THEN {snippets[j].content}
          ELSE {})
         \cup snippet_image_paths(snippets, j + 1)

\* The snippets of reference nodes only are looked at.
RECURSIVE referenced_from_reference_nodes_only(_, _)
referenced_from_reference_nodes_only(nodes, i) ==
    IF i > Len(nodes)
    THEN [paper_paths |-> {}, image_paths |-> {}]
    ELSE LET node == nodes[i]
             rest == referenced_from_reference_nodes_only(nodes, i + 1)
         IN  IF node.type = "reference_paper"
             THEN [paper_paths |->
                      (IF node.metadata.relative_path_to_md # empty_str
                       THEN {node.metadata.relative_path_to_md} ELSE {})
                      \cup rest.paper_paths,
                   image_paths |->
                      snippet_image_paths(node.snippets.items, 1)
                      \cup rest.image_paths]
             ELSE rest

RECURSIVE referenced_from(_, _)
referenced_from(nodes, i) ==
    IF i > Len(nodes)
    THEN [paper_paths |-> {}, image_paths |-> {}]
    ELSE LET node == nodes[i]
             rest == referenced_from(nodes, i + 1)
         IN  [paper_paths |->
                  (IF /\ node.type = "reference_paper"
                      /\ node.metadata.relative_path_to_md # empty_str
                   THEN {node.metadata.relative_path_to_md}
                   ELSE {})
                  \cup rest.paper_paths,
              image_paths |->
                  snippet_image_paths(node.snippets.items, 1)
                  \cup rest.image_paths]

\* What get_referenced_assets returns
referenced_assets(pd) ==
    IF pd = py_none
    THEN [paper_paths |-> {}, image_paths |-> {}]
    ELSE referenced_from(pd.nodes.items, 1)

\* The files cleanup_orphaned_assets calls unlink() on
unreferenced(files, refs) ==
    {file \in papers_files(files) : file \notin refs.paper_paths}
        \cup {file \in images_files(files) : file \notin refs.image_paths}

\* What the last call returned, for the next one to be compared with
last_call ==
    [op |-> returned.op,
     value |-> IF "value" \in DOMAIN returned THEN returned.value ELSE empty_dict]

\* ProjectManager.get_referenced_assets
get_referenced_assets ==
    /\ returned' = [op |-> "get_referenced_assets",
                    value |-> referenced_assets(project_data),
                    unlink_failed |-> {}, previous |-> last_call]
    /\ UNCHANGED <<project_data, asset_files, project_dock, entity, record,
                   manager_vars, scene_vars>>

\* ProjectManager.cleanup_orphaned_assets; unlink() raises IOError for the
\* files of failing and deletes the others it is called on.
cleanup_orphaned_assets(failing) ==
    LET to_unlink == unreferenced(asset_files, referenced_assets(project_data))
        deleted == IF project_is_open THEN to_unlink \ failing ELSE {}
    IN  /\ asset_files' = asset_files \ deleted
        /\ returned' = [op |-> "cleanup_orphaned_assets",
                        value |-> [papers |-> Cardinality(papers_files(deleted)),
                                   images |-> Cardinality(images_files(deleted))],
                        unlink_failed |->
                            IF project_is_open THEN to_unlink \cap failing ELSE {},
                        previous |-> last_call]
        /\ UNCHANGED <<project_data, project_dock, entity, record,
                       manager_vars, scene_vars>>

\* An edge passes when its target is a node.
edge_is_valid_by_target(edge, valid_node_ids) ==
    edge.target_id \in valid_node_ids

\* The test of the loop of validate_and_clean_data
edge_is_valid(edge, valid_node_ids) ==
    edge.source_id \in valid_node_ids /\ edge.target_id \in valid_node_ids

\* "for edge in edges: if not valid: edges.remove(edge)": the edge after a
\* removed one is skipped.
RECURSIVE scan_removing(_, _, _)
scan_removing(edges, valid_node_ids, i) ==
    IF i > Len(edges)
    THEN edges
    ELSE IF edge_is_valid(edges[i], valid_node_ids)
         THEN scan_removing(edges, valid_node_ids, i + 1)
         ELSE scan_removing(SubSeq(edges, 1, i - 1) \o SubSeq(edges, i + 1, Len(edges)),
                            valid_node_ids, i + 1)

valid_edges_removing_while_iterating(edges, valid_node_ids) ==
    scan_removing(edges, valid_node_ids, 1)

\* The loop of validate_and_clean_data: valid_edges when it ends
RECURSIVE valid_edges(_, _)
valid_edges(edges, valid_node_ids) ==
    IF edges = <<>>
    THEN <<>>
    ELSE IF edge_is_valid(Head(edges), valid_node_ids)
         THEN <<Head(edges)>> \o valid_edges(Tail(edges), valid_node_ids)
         ELSE valid_edges(Tail(edges), valid_node_ids)

\* {n.id for n in self.project_data.nodes}
node_ids_of(pd) == {pd.nodes.items[i].id : i \in 1..Len(pd.nodes.items)}

\* ProjectManager.validate_and_clean_data, with the cleanup_orphaned_assets
\* call it ends with.
validate_and_clean_data(failing) ==
    IF ~project_is_open
    THEN /\ returned' = [op |-> "validate_and_clean_data", value |-> empty_dict,
                         unlink_failed |-> {}, previous |-> last_call]
         /\ UNCHANGED <<project_data, asset_files, project_dock, entity, record,
                        manager_vars, scene_vars>>
    ELSE LET kept == valid_edges(project_data.edges.items, node_ids_of(project_data))
             to_unlink == unreferenced(asset_files, referenced_assets(project_data))
             deleted == to_unlink \ failing
         IN  /\ project_data' = [project_data EXCEPT !.edges = py_list(kept)]
             /\ asset_files' = asset_files \ deleted
             /\ returned' =
                    [op |-> "validate_and_clean_data",
                     value |-> [edges_removed |->
                                    Len(project_data.edges.items) - Len(kept),
                                assets_removed |-> Cardinality(deleted)],
                     unlink_failed |-> to_unlink \cap failing,
                     previous |-> last_call]
             /\ UNCHANGED <<project_dock, entity, record, manager_vars, scene_vars>>

\* ProjectManager.close_project
close_project ==
    /\ current_project_name' = None
    /\ current_project_path' = None
    /\ project_data' = py_none
    /\ returned' = [op |-> "close_project", value |-> empty_dict,
                    unlink_failed |-> {}, previous |-> last_call]
    /\ UNCHANGED <<undo_stack, redo_stack, is_undoing, call_stack,
                   context_has_project_manager, history_file, calls, io, ret,
                   roundtrip, asset_files, project_dock, entity, record,
                   scene_vars>>

----------------------------------------------------------------------------
(* ProjectManager: create_project, open_project, save_project and          *)
(* delete_project (src/utils.py).  The projects here have no asset files.  *)

\* The names a project is created, opened or deleted by; sanitize_project_name
\* leaves them as they are.
ProjectNames == {"p1", "p2"}

\* get_projects_dir() / name
project_path(name) == IF name = "p1" THEN ProjectPath ELSE "projects/p2"

\* project_data.json is not there.
NoDataFile == [status |-> "absent"]

\* project_data.json holds the text json.dumps wrote for value; json.loads
\* reads value from it.  The dicts of the entities hold str, int, bool, None,
\* list and dict values only, which come back equal.
json_text(value) == [status |-> "json", value |-> value]

\* project_data.json holds text that json.loads refuses (JSONDecodeError), as
\* a file that a failed write has cut short does.
NotJson == [status |-> "not json"]

\* project_data.json holds bytes that are not UTF-8: f.read() raises
\* UnicodeDecodeError, which is a ValueError.
NotUtf8 == [status |-> "not utf-8"]

\* A directory of get_projects_dir(): whether it exists, and its
\* project_data.json
project_directory(exists, data_file) == [exists |-> exists, data_file |-> data_file]

NoDirectory == project_directory(FALSE, NoDataFile)

\* ProjectData.to_json
to_json(pd) == json_text(entity_to_dict(pd))

\* What a ProjectManager call returned, or that it raised
manager_result(op, value, raised) ==
    [op |-> op, value |-> value, raised |-> raised, unlink_failed |-> {},
     previous |-> last_call]

NoSession == [kind |-> "none"]

\* No project directory is on disk but that of the open project, which
\* holds the project as create_project wrote it.
session_at_rest ==
    /\ current_project_name = IF current_project_path = None THEN None ELSE "p1"
    /\ projects_dir =
           [name \in ProjectNames |->
               IF current_project_path # None /\ name = "p1"
               THEN project_directory(TRUE, to_json(new_project_data))
               ELSE NoDirectory]
    /\ session = NoSession

SaveOutcomes == {"ok", "open_failed", "write_failed"}

\* The data file after save_project's open(data_file, "w") and f.write:
\* open() failing leaves the file, f.write failing leaves it cut short.
written_data_file(data_file, pd, outcome) ==
    CASE outcome = "ok"           -> to_json(pd)
      [] outcome = "open_failed"  -> data_file
      [] outcome = "write_failed" -> NotJson

\* ProjectManager.save_project
save_project(outcome) ==
    /\ IF ~project_is_open \/ project_data = py_none
       THEN /\ returned' = manager_result("save_project", FALSE, FALSE)
            /\ UNCHANGED projects_dir
       ELSE /\ projects_dir' =
                   [projects_dir EXCEPT ![current_project_name].data_file =
                       written_data_file(@, project_data, outcome)]
            /\ returned' = manager_result("save_project", outcome = "ok", FALSE)
    /\ UNCHANGED <<current_project_name, current_project_path, project_data>>

CreateOutcomes == {"ok", "mkdir_failed", "open_failed", "write_failed"}

\* ProjectManager.create_project.  ensure_directory raising (OSError) is not
\* caught; the save_project it ends with catches its own failure, and its
\* result is not looked at.
create_project(name, outcome) ==
    IF projects_dir[name].exists
    THEN /\ returned' = manager_result("create_project", FALSE, FALSE)
         /\ UNCHANGED <<current_project_name, current_project_path, project_data,
                        projects_dir>>
    ELSE IF outcome = "mkdir_failed"
    THEN /\ returned' = manager_result("create_project", None, TRUE)
         /\ \E made \in BOOLEAN :
                projects_dir' = [projects_dir EXCEPT ![name].exists = made]
         /\ UNCHANGED <<current_project_name, current_project_path, project_data>>
    ELSE /\ current_project_name' = name
         /\ current_project_path' = project_path(name)
         /\ project_data' = new_project_data
         /\ projects_dir' =
                [projects_dir EXCEPT ![name] =
                    project_directory(TRUE,
                        written_data_file(NoDataFile, new_project_data, outcome))]
         /\ returned' = manager_result("create_project", TRUE, FALSE)

OpenOutcomes == {"ok", "read_failed", "mkdir_failed"}

\* Mutant of open_project: the name and the path are set before the file is
\* read.
open_project_switches_first(name, outcome) ==
    LET data_file == projects_dir[name].data_file
        parsed == data_file.status = "json"
                      /\ ~entity_from_dict_raises("ProjectData", data_file.value)
    IN  IF data_file.status = "absent"
        THEN /\ returned' = manager_result("open_project", FALSE, FALSE)
             /\ UNCHANGED <<current_project_name, current_project_path, project_data,
                            projects_dir>>
        ELSE /\ current_project_name' = name
             /\ current_project_path' = project_path(name)
             /\ project_data' =
                    IF outcome # "read_failed" /\ parsed
                    THEN entity_from_dict("ProjectData", data_file.value)
                    ELSE project_data
             /\ returned' =
                    IF outcome # "read_failed" /\ data_file.status = "not utf-8"
                    THEN manager_result("open_project", None, TRUE)
                    ELSE IF outcome # "read_failed" /\ data_file.status = "json" /\ ~parsed
                    THEN manager_result("open_project", None, TRUE)
                    ELSE manager_result("open_project", outcome = "ok" /\ parsed, FALSE)
             /\ UNCHANGED projects_dir

\* ProjectManager.open_project.  open() or f.read() raising IOError
\* (read_failed) and json.loads raising JSONDecodeError are caught;
\* UnicodeDecodeError and what ProjectData.from_dict raises are not.
\* ensure_directory raising (mkdir_failed, an OSError) is caught after the
\* three fields have been set.
open_project(name, outcome) ==
    LET data_file == projects_dir[name].data_file
        unchanged == UNCHANGED <<current_project_name, current_project_path,
                                 project_data, projects_dir>>
    IN  IF data_file.status = "absent"
        THEN returned' = manager_result("open_project", FALSE, FALSE) /\ unchanged
        ELSE IF outcome = "read_failed"
        THEN returned' = manager_result("open_project", FALSE, FALSE) /\ unchanged
        ELSE IF data_file.status = "not utf-8"
        THEN returned' = manager_result("open_project", None, TRUE) /\ unchanged
        ELSE IF data_file.status = "not json"
        THEN returned' = manager_result("open_project", FALSE, FALSE) /\ unchanged
        ELSE IF entity_from_dict_raises("ProjectData", data_file.value)
        THEN returned' = manager_result("open_project", None, TRUE) /\ unchanged
        ELSE /\ project_data' = entity_from_dict("ProjectData", data_file.value)
             /\ current_project_name' = name
             /\ current_project_path' = project_path(name)
             /\ returned' = manager_result("open_project", outcome = "ok", FALSE)
             /\ UNCHANGED projects_dir

DeleteOutcomes == {"ok", "rmtree_failed"}

\* ProjectManager.delete_project.  shutil.rmtree raising is caught; it may
\* have deleted project_data.json by then.  The fields of the manager are
\* not written, whichever project is deleted.
delete_project(name, outcome) ==
    /\ IF ~projects_dir[name].exists
       THEN /\ returned' = manager_result("delete_project", FALSE, FALSE)
            /\ UNCHANGED projects_dir
       ELSE IF outcome = "rmtree_failed"
       THEN /\ returned' = manager_result("delete_project", FALSE, FALSE)
            /\ \E data_file \in {projects_dir[name].data_file, NoDataFile} :
                   projects_dir' = [projects_dir EXCEPT ![name].data_file = data_file]
       ELSE /\ returned' = manager_result("delete_project", TRUE, FALSE)
            /\ projects_dir' = [projects_dir EXCEPT ![name] = NoDirectory]
    /\ UNCHANGED <<current_project_name, current_project_path, project_data>>

----------------------------------------------------------------------------
(* GlobalEdgeColorChangeCommand, ModulePaletteColorChangeCommand and        *)
(* RemoveNodeCommand: what execute() and undo() do to the project data and  *)
(* to the scene.  The dock, the palette and the items of the scene keep     *)
(* copies of the colours, which are not modelled.                           *)

\* GlobalEdgeColorChangeCommand._apply_colors(pipeline, reference)
apply_colors(pd, pipeline, reference) ==
    IF is_project_open
    THEN [pd EXCEPT !.pipeline_edge_color = pipeline,
                    !.reference_edge_color = reference]
    ELSE pd

GlobalEdgeColorChange_execute(cmd, pd) ==
    apply_colors(pd, cmd.new_pipeline_color, cmd.new_reference_color)

GlobalEdgeColorChange_undo(cmd, pd) ==
    apply_colors(pd, cmd.old_pipeline_color, cmd.old_reference_color)

\* project_data.module_colors[module_type] = color, on an open project: the
\* key is added when the dict does not have it.
set_module_color(pd, module_type, color) ==
    IF is_project_open
    THEN [pd EXCEPT !.module_colors =
             [key \in DOMAIN pd.module_colors \cup {module_type} |->
                 IF key = module_type THEN color ELSE pd.module_colors[key]]]
    ELSE pd

\* "for group in scene._groups.values(): group.set_color(color)" when
\* module_type is "group": every group of the scene gets the colour.
set_group_colors(sc, module_type, color) ==
    IF module_type = "group"
    THEN [sc EXCEPT !.groups =
             [group_id \in GroupIds |->
                 IF sc.groups[group_id].present
                 THEN [sc.groups[group_id] EXCEPT !.color = color]
                 ELSE sc.groups[group_id]]]
    ELSE sc

\* The index of the node with this id in a list of nodes, 0 without one
index_of_node(nodes, node_id) ==
    IF \E i \in 1..Len(nodes) : nodes[i].id = node_id
    THEN CHOOSE i \in 1..Len(nodes) : nodes[i].id = node_id
    ELSE 0

\* scene._remove_node_internal(node_id): the node leaves the project, and
\* the edges that start or end at it leave with it.
remove_node_internal(pd, node_id) ==
    LET nodes == pd.nodes.items
        at == index_of_node(nodes, node_id)
        others(edge) == edge.source_id # node_id /\ edge.target_id # node_id
    IN  [pd EXCEPT
           !.nodes = py_list(SubSeq(nodes, 1, at - 1) \o SubSeq(nodes, at + 1, Len(nodes))),
           !.edges = py_list(SelectSeq(pd.edges.items, others))]

\* RemoveNodeCommand.execute
RemoveNode_execute(cmd, pd) ==
    IF index_of_node(pd.nodes.items, cmd.node_data_dict.id) # 0
    THEN remove_node_internal(pd, cmd.node_data_dict.id)
    ELSE pd

\* scene.restore_node(node_data), scene.restore_edge(edge_data): the node
\* and the edges are in the project again, after those it has.
RemoveNode_undo(cmd, pd) ==
    [pd EXCEPT
       !.nodes = py_list(Append(pd.nodes.items,
                                entity_from_dict("NodeData", cmd.node_data_dict))),
       !.edges = py_list(pd.edges.items \o
                         [i \in 1..Len(cmd.connected_edges) |->
                             entity_from_dict("EdgeData", cmd.connected_edges[i])])]

CanvasClasses == {"NodePositionCommand", "GroupMoveCommand", "NodeGroupChangeCommand"}

\* command.execute(): the scene afterwards
executed_scene(cmd, sc) ==
    IF cmd.cls \in CanvasClasses THEN command_execute(cmd, sc).scene
    ELSE IF cmd.cls = "ModulePaletteColorChangeCommand"
    THEN set_group_colors(sc, cmd.module_type, cmd.new_color)
    ELSE sc

\* command.undo(): the scene afterwards
undone_scene(cmd, sc) ==
    IF cmd.cls \in CanvasClasses THEN command_undo(cmd, sc)
    ELSE IF cmd.cls = "ModulePaletteColorChangeCommand"
    THEN set_group_colors(sc, cmd.module_type, cmd.old_color)
    ELSE sc

\* command.execute(): the project data afterwards
executed_project(cmd, pd) ==
    CASE cmd.cls = "GlobalEdgeColorChangeCommand" -> GlobalEdgeColorChange_execute(cmd, pd)
      [] cmd.cls = "ModulePaletteColorChangeCommand" ->
            set_module_color(pd, cmd.module_type, cmd.new_color)
      [] cmd.cls = "RemoveNodeCommand" -> RemoveNode_execute(cmd, pd)
      [] OTHER -> pd

\* command.undo(): the project data afterwards
undone_project(cmd, pd) ==
    CASE cmd.cls = "GlobalEdgeColorChangeCommand" -> GlobalEdgeColorChange_undo(cmd, pd)
      [] cmd.cls = "ModulePaletteColorChangeCommand" ->
            set_module_color(pd, cmd.module_type, cmd.old_color)
      [] cmd.cls = "RemoveNodeCommand" -> RemoveNode_undo(cmd, pd)
      [] OTHER -> pd

----------------------------------------------------------------------------
(* A session: commands are constructed on the state of the moment and run   *)
(* by the manager, one call after the other                                 *)

\* The graph: what the scene shows and what the project holds
graph(sc, pd) == [scene |-> sc, project_data |-> pd]

\* The group whose node_ids holds the node, None when no group does
group_of(sc, node_id) ==
    IF \E group_id \in GroupIds :
           sc.groups[group_id].present /\ contains(sc.groups[group_id].node_ids, node_id)
    THEN CHOOSE group_id \in GroupIds :
           sc.groups[group_id].present /\ contains(sc.groups[group_id].node_ids, node_id)
    ELSE None

\* The colour the palette shows for a module type
palette_color(pd, module_type) ==
    IF module_type \in DOMAIN pd.module_colors THEN pd.module_colors[module_type]
    ELSE "#78909C"

\* The old values of the command are those of the state it is constructed in.
old_values_hold(cmd, sc, pd) ==
    CASE cmd.cls = "NodePositionCommand" ->
            sc.nodes[cmd.node_id].pos = <<cmd.old_x, cmd.old_y>>
      [] cmd.cls = "NodeGroupChangeCommand" ->
            cmd.old_group_id = group_of(sc, cmd.node_id)
      [] cmd.cls = "GlobalEdgeColorChangeCommand" ->
            /\ cmd.old_pipeline_color = pd.pipeline_edge_color
            /\ cmd.old_reference_color = pd.reference_edge_color
      [] cmd.cls = "ModulePaletteColorChangeCommand" ->
            cmd.old_color = palette_color(pd, cmd.module_type)
      [] OTHER -> TRUE

\* A command other than a GroupMoveCommand is constructed.
new_command(cmd) ==
    /\ constructed = NoCommand
    /\ constructed' = cmd
    /\ session' = [session EXCEPT
                      !.faithful = @ /\ old_values_hold(cmd, scene, project_data)]
    /\ UNCHANGED <<scene, log, snapshot, manager_vars, project_vars,
                   current_project_name, projects_dir>>

\* undo_manager.execute(constructed) up to the start of constructed.execute()
session_execute ==
    /\ constructed # NoCommand
    /\ execute(constructed)
    /\ constructed' = NoCommand
    /\ UNCHANGED <<scene, log, snapshot, project_vars, session_vars>>

\* The command's execute() has run and returned, and execute() goes on.
session_execute_returns(outcome) ==
    /\ execute_returns(outcome)
    /\ LET cmd == top(call_stack).command
       IN  /\ scene' = executed_scene(cmd, scene)
           /\ project_data' = executed_project(cmd, project_data)
           /\ session' = [session EXCEPT
                             !.after = graph(executed_scene(cmd, scene),
                                             executed_project(cmd, project_data))]
    /\ UNCHANGED <<constructed, log, snapshot, asset_files, project_dock, entity,
                   record, returned, current_project_name, projects_dir>>

\* undo_manager.undo() up to the start of the command's undo()
session_undo ==
    /\ undo
    /\ UNCHANGED <<scene_vars, project_vars, session_vars>>

\* The command's undo() has run and returned, and undo() goes on.
session_undo_returns(outcome) ==
    /\ undo_returns(outcome)
    /\ LET cmd == top(call_stack).command
       IN  /\ scene' = undone_scene(cmd, scene)
           /\ project_data' = undone_project(cmd, project_data)
    /\ UNCHANGED <<constructed, log, snapshot, asset_files, project_dock, entity,
                   record, returned, session_vars>>

\* undo_manager.redo() up to the start of the command's execute()
session_redo ==
    /\ redo
    /\ UNCHANGED <<scene_vars, project_vars, session_vars>>

\* The command's execute() has run and returned, and redo() goes on.
session_redo_returns(outcome) ==
    /\ redo_returns(outcome)
    /\ LET cmd == top(call_stack).command
       IN  /\ scene' = executed_scene(cmd, scene)
           /\ project_data' = executed_project(cmd, project_data)
    /\ UNCHANGED <<constructed, log, snapshot, asset_files, project_dock, entity,
                   record, returned, session_vars>>

----------------------------------------------------------------------------
(* What a step did, read off the observations *)

\* The step started command.<method>() inside a new execute()/undo()/redo().
entered(op) ==
    /\ Len(call_stack') = Len(call_stack) + 1
    /\ top(call_stack').op = op

\* The step ended the innermost call in progress, with this result.
finished(op, value) ==
    /\ Len(call_stack') = Len(call_stack) - 1
    /\ ret' = returns(op, value)

\* The step was a whole call that ran no command method.
immediate(op, value) ==
    /\ call_stack' = call_stack
    /\ ret' = returns(op, value)

NoRoundtrip == [stage |-> 0, undo_stack |-> <<>>, redo_stack |-> <<>>]

\* roundtrip follows an undo() and the redo() called right after it: stage 1
\* once undo() has started (with the stacks as they were at the call), 2 once
\* it has returned True, 3 once redo() has started, 4 once it has returned
\* True.  Any other step resets it.
Track ==
    roundtrip' =
        IF entered("undo")
        THEN [stage |-> 1, undo_stack |-> undo_stack, redo_stack |-> redo_stack]
        ELSE IF roundtrip.stage = 1 /\ finished("undo", "True")
        THEN [roundtrip EXCEPT !.stage = 2]
        ELSE IF roundtrip.stage = 2 /\ entered("redo")
        THEN [roundtrip EXCEPT !.stage = 3]
        ELSE IF roundtrip.stage = 3 /\ finished("redo", "True")
        THEN [roundtrip EXCEPT !.stage = 4]
        ELSE NoRoundtrip

----------------------------------------------------------------------------
(* Specifications *)

\* A scene without nodes and groups
EmptyScene ==
    [nodes  |-> [node_id \in NodeIds |-> node_item(FALSE, <<0, 0>>, None)],
     groups |-> [group_id \in GroupIds |-> group_item(FALSE, <<0, 0>>, <<>>, None)]]

\* UndoManager.__init__, with the context it is given: a window whose project
\* manager has a project open or not, or an object without a project manager.
Init ==
    /\ undo_stack = <<>>
    /\ redo_stack = <<>>
    /\ is_undoing = FALSE
    /\ call_stack = <<>>
    /\ context_has_project_manager \in BOOLEAN
    /\ current_project_path \in
           IF context_has_project_manager THEN {None, ProjectPath} ELSE {None}
    /\ history_file = NoFile
    /\ calls = <<>>
    /\ io = "none"
    /\ ret = NoReturn
    /\ roundtrip = NoRoundtrip
    /\ scene = EmptyScene
    /\ constructed = NoCommand
    /\ log = <<>>
    /\ snapshot = NoSnapshot
    /\ project_at_rest
    /\ session_at_rest

\* The commands a caller hands to execute() in Spec.
Commands ==
    {TodoToggleCommand(0, TRUE), TodoToggleCommand(1, FALSE)}

held == Len(undo_stack) + Len(redo_stack) + Len(call_stack)

\* A caller may start a call that runs a command method: the user when no
\* call is in progress, the Mutation Target from inside a command method.
may_nest == Len(call_stack) < MaxDepth

\* Spec: calls may come from inside a running command method, command
\* methods may raise, and every write of the history file succeeds.
Execute ==
    \E command \in Commands :
        /\ is_undoing \/ (may_nest /\ held < MaxHeld)
        /\ execute(command)
        /\ Track /\ UNCHANGED <<scene_vars, project_vars, session_vars>>

ExecuteReturns == execute_returns("ok") /\ Track /\ UNCHANGED <<scene_vars, project_vars, session_vars>>

ExecuteRaises == execute_raises /\ Track /\ UNCHANGED <<scene_vars, project_vars, session_vars>>

Undo == (~can_undo \/ may_nest) /\ undo /\ Track /\ UNCHANGED <<scene_vars, project_vars, session_vars>>

UndoReturns == undo_returns("ok") /\ Track /\ UNCHANGED <<scene_vars, project_vars, session_vars>>

UndoRaises == undo_raises /\ Track /\ UNCHANGED <<scene_vars, project_vars, session_vars>>

Redo == (~can_redo \/ may_nest) /\ redo /\ Track /\ UNCHANGED <<scene_vars, project_vars, session_vars>>

RedoReturns == redo_returns("ok") /\ Track /\ UNCHANGED <<scene_vars, project_vars, session_vars>>

RedoRaises == redo_raises /\ Track /\ UNCHANGED <<scene_vars, project_vars, session_vars>>

Clear == clear /\ Track /\ UNCHANGED <<scene_vars, project_vars, session_vars>>

Next ==
    \/ Execute
    \/ ExecuteReturns
    \/ ExecuteRaises
    \/ Undo
    \/ UndoReturns
    \/ UndoRaises
    \/ Redo
    \/ RedoReturns
    \/ RedoRaises
    \/ Clear

Spec == Init /\ [][Next]_vars

----------------------------------------------------------------------------
(* SpecIO: calls come one after the other, command methods may raise, and   *)
(* a write of the history file may fail at open() or in json.dump().        *)

idle == call_stack = <<>>

IOExecute ==
    \E command \in Commands :
        /\ idle
        /\ held < MaxHeld
        /\ execute(command)
        /\ Track /\ UNCHANGED <<scene_vars, project_vars, session_vars>>

IOExecuteReturns == \E outcome \in IOOutcomes : execute_returns(outcome) /\ Track /\ UNCHANGED <<scene_vars, project_vars, session_vars>>

IOExecuteRaises == execute_raises /\ Track /\ UNCHANGED <<scene_vars, project_vars, session_vars>>

IOUndo == idle /\ undo /\ Track /\ UNCHANGED <<scene_vars, project_vars, session_vars>>

IOUndoReturns == \E outcome \in IOOutcomes : undo_returns(outcome) /\ Track /\ UNCHANGED <<scene_vars, project_vars, session_vars>>

IOUndoRaises == undo_raises /\ Track /\ UNCHANGED <<scene_vars, project_vars, session_vars>>

IORedo == idle /\ redo /\ Track /\ UNCHANGED <<scene_vars, project_vars, session_vars>>

IORedoReturns == \E outcome \in IOOutcomes : redo_returns(outcome) /\ Track /\ UNCHANGED <<scene_vars, project_vars, session_vars>>

IORedoRaises == redo_raises /\ Track /\ UNCHANGED <<scene_vars, project_vars, session_vars>>

IOClear == idle /\ clear /\ Track /\ UNCHANGED <<scene_vars, project_vars, session_vars>>

NextIO ==
    \/ IOExecute
    \/ IOExecuteReturns
    \/ IOExecuteRaises
    \/ IOUndo
    \/ IOUndoReturns
    \/ IOUndoRaises
    \/ IORedo
    \/ IORedoReturns
    \/ IORedoRaises
    \/ IOClear

SpecIO == Init /\ [][NextIO]_vars

----------------------------------------------------------------------------
(* SpecCap: the manager driven to its capacity.  Calls come one after the  *)
(* other (no call from inside a command method), every command method      *)
(* returns, every write succeeds, and the commands executed are numbered    *)
(* along the history: the command executed next carries the todo_index      *)
(* after that of the newest entry of the undo stack.                        *)

NextCommand ==
    TodoToggleCommand(IF can_undo THEN top(undo_stack).todo_index + 1 ELSE 1, TRUE)

CapExecute ==
    /\ idle
    /\ NextCommand.todo_index <= MAX_HISTORY + MaxOver
    /\ execute(NextCommand)
    /\ Track /\ UNCHANGED <<scene_vars, project_vars, session_vars>>

CapExecuteReturns == execute_returns("ok") /\ Track /\ UNCHANGED <<scene_vars, project_vars, session_vars>>

CapUndo == idle /\ undo /\ Track /\ UNCHANGED <<scene_vars, project_vars, session_vars>>

CapUndoReturns == undo_returns("ok") /\ Track /\ UNCHANGED <<scene_vars, project_vars, session_vars>>

CapRedo == idle /\ redo /\ Track /\ UNCHANGED <<scene_vars, project_vars, session_vars>>

CapRedoReturns == redo_returns("ok") /\ Track /\ UNCHANGED <<scene_vars, project_vars, session_vars>>

CapClear == idle /\ clear /\ Track /\ UNCHANGED <<scene_vars, project_vars, session_vars>>

NextCap ==
    \/ CapExecute
    \/ CapExecuteReturns
    \/ CapUndo
    \/ CapUndoReturns
    \/ CapRedo
    \/ CapRedoReturns
    \/ CapClear

SpecCap == Init /\ [][NextCap]_vars

----------------------------------------------------------------------------
(* SpecCapLoad: a manager that finds a history file on disk that holds     *)
(* about MAX_HISTORY entries, loads it at any point between the calls and  *)
(* walks the history with undo() and redo().  The project is open, so that *)
(* every undo() and redo() writes the file again.                          *)

\* The commands numbered first to last, oldest first
numbered(first, last) ==
    [i \in 1..(last - first + 1) |-> TodoToggleCommand(first + i - 1, TRUE)]

\* History files as save_to_file writes them, with one entry less than
\* MAX_HISTORY up to MaxOver entries more in undo_stack, and none or one in
\* redo_stack.
FullFiles ==
    {json_dump(history_data(numbered(1, entries), undone)) :
        entries \in (MAX_HISTORY - 1)..(MAX_HISTORY + MaxOver),
        undone \in {<<>>, <<TodoToggleCommand(0, TRUE)>>}}

InitCapLoad ==
    /\ undo_stack = <<>>
    /\ redo_stack = <<>>
    /\ is_undoing = FALSE
    /\ call_stack = <<>>
    /\ context_has_project_manager = TRUE
    /\ current_project_path = ProjectPath
    /\ history_file \in FullFiles
    /\ calls = <<>>
    /\ io = "none"
    /\ ret = NoReturn
    /\ roundtrip = NoRoundtrip
    /\ scene = EmptyScene
    /\ constructed = NoCommand
    /\ log = <<>>
    /\ snapshot = NoSnapshot
    /\ project_at_rest
    /\ session_at_rest

CapLoad ==
    idle /\ load_from_file("ok") /\ Track /\ UNCHANGED <<scene_vars, project_vars, session_vars>>

NextCapLoad ==
    \/ CapLoad
    \/ CapUndo
    \/ CapUndoReturns
    \/ CapRedo
    \/ CapRedoReturns

SpecCapLoad == InitCapLoad /\ [][NextCapLoad]_vars

----------------------------------------------------------------------------
(* SpecLoad: a manager that finds some history file on disk.  The file may *)
(* be missing, cut short, or hold entries that the program did not write.   *)
(* Calls come one after the other, every command method returns and every   *)
(* write succeeds; reading the file may fail.                                *)

\* Files hold at most this many entries in their undo_stack.
MaxEntries == 2

\* All sequences over S of length at most n
BoundedSeq(S, n) == UNION {[1..k -> S] : k \in 0..n}

\* What json.load gives for entries that save_to_file wrote
WrittenTodoToggle == json_dict(to_dict(TodoToggleCommand(0, TRUE)))

WrittenGroupMove ==
    json_dict(to_dict(GroupMoveCommand("g1", py_tuple(<<0, 0>>), py_tuple(<<1, 0>>),
                                       <<>>, FALSE)))

\* An entry whose kind tag is not in the registry, and one without a tag
UnknownTag == [type |-> "NodeRotate", node_id |-> "n1"]

NoTag == [todo_index |-> 0, new_state |-> TRUE]

\* A TodoToggle entry without its new_state
MissingKey == [type |-> "TodoToggle", todo_index |-> 0]

\* A GroupMove entry whose old_pos is a number
WrongShape ==
    [type |-> "GroupMove", group_id |-> "g1", old_pos |-> py_number(0),
     new_pos |-> py_list(<<1, 0>>)]

Entries ==
    {WrittenTodoToggle, WrittenGroupMove, UnknownTag, NoTag, MissingKey,
     WrongShape, JsonString}

FileRedoStacks == {<<>>, <<WrittenTodoToggle>>, <<UnknownTag>>, <<JsonString>>}

Files ==
    {NoFile, TruncatedFile} \cup
    {[status |-> "written", undo_stack |-> undo_entries, redo_stack |-> redo_entries] :
        undo_entries \in BoundedSeq(Entries, MaxEntries),
        redo_entries \in FileRedoStacks}

InitLoad ==
    /\ undo_stack = <<>>
    /\ redo_stack = <<>>
    /\ is_undoing = FALSE
    /\ call_stack = <<>>
    /\ context_has_project_manager = TRUE
    /\ current_project_path \in {None, ProjectPath}
    /\ history_file \in Files
    /\ calls = <<>>
    /\ io = "none"
    /\ ret = NoReturn
    /\ roundtrip = NoRoundtrip
    /\ scene = EmptyScene
    /\ constructed = NoCommand
    /\ log = <<>>
    /\ snapshot = NoSnapshot
    /\ project_at_rest
    /\ session_at_rest

LoadExecute ==
    /\ idle
    /\ held < MaxHeld
    /\ execute(TodoToggleCommand(1, FALSE))
    /\ Track /\ UNCHANGED <<scene_vars, project_vars, session_vars>>

LoadExecuteReturns == execute_returns("ok") /\ Track /\ UNCHANGED <<scene_vars, project_vars, session_vars>>

LoadUndo == idle /\ undo /\ Track /\ UNCHANGED <<scene_vars, project_vars, session_vars>>

LoadUndoReturns == undo_returns("ok") /\ Track /\ UNCHANGED <<scene_vars, project_vars, session_vars>>

Load ==
    \E outcome \in ReadOutcomes :
        idle /\ load_from_file(outcome) /\ Track /\ UNCHANGED <<scene_vars, project_vars, session_vars>>

NextLoad ==
    \/ LoadExecute
    \/ LoadExecuteReturns
    \/ LoadUndo
    \/ LoadUndoReturns
    \/ Load

SpecLoad == InitLoad /\ [][NextLoad]_vars

----------------------------------------------------------------------------
(* SpecHistory: commands of every class are executed and undone with a     *)
(* project open, the history is saved and loaded again.  Calls come one     *)
(* after the other, every command method returns, every write and read      *)
(* succeeds.                                                                 *)

\* SpecHistory: execute() is offered only while fewer commands than this are held.
MaxSaved == 2

\* NodeData.to_dict(), EdgeData.to_dict(), GroupData.to_dict() of some node,
\* edge and group: dicts of str, number, list and dict values.
NodeDataDict ==
    [id |-> "n1", type |-> "pipeline_module", position |-> [x |-> 0, y |-> 0],
     tags |-> <<"tag">>]

EdgeDataDict == [id |-> "e1", source_id |-> "n1", target_id |-> "n2"]

GroupDataDict ==
    [id |-> "g1", name |-> "Group", position |-> [x |-> 0, y |-> 0],
     color |-> "#78909C", node_ids |-> <<"n1">>]

\* Commands as the application constructs them, one or more of each class.
AllCommands ==
    {DescriptionChangeCommand("", "notes"),
     TodoAddCommand("todo", -1),
     TodoRemoveCommand(0, "todo", FALSE),
     TodoEditCommand(0, "todo", "done"),
     TodoToggleCommand(0, TRUE),
     TodoMoveCommand(0, 1),
     TagAddCommand("tag", -1),
     TagRemoveCommand("tag", "#78909C", 0),
     TagRenameCommand("tag", "label"),
     TagColorChangeCommand("tag", "#78909C", "#FFFFFF"),
     TagMoveCommand(0, 1),
     NodePositionCommand("n1", 0, 0, 1, 1),
     AddNodeCommand(NodeDataDict),
     RemoveNodeCommand(NodeDataDict, <<EdgeDataDict>>),
     AddEdgeCommand(EdgeDataDict),
     RemoveEdgeCommand(EdgeDataDict),
     AddGroupCommand(GroupDataDict),
     RemoveGroupCommand(GroupDataDict),
     GroupMoveCommand("g1", py_tuple(<<0, 0>>), py_tuple(<<1, 1>>), <<>>, TRUE),
     GroupMoveCommand("g1", py_tuple(<<0, 0>>), py_tuple(<<1, 1>>),
                      <<[node_id |-> "n1", pos |-> py_tuple(<<0, 1>>)]>>, TRUE),
     NodeGroupChangeCommand("n1", None, "g1"),
     NodeGroupChangeCommand("n1", "g1", "g2"),
     GlobalEdgeColorChangeCommand("#000000", "#111111", "#222222", "#333333"),
     ModulePaletteColorChangeCommand("input", "#78909C", "#FFFFFF")}

InitHistory ==
    /\ undo_stack = <<>>
    /\ redo_stack = <<>>
    /\ is_undoing = FALSE
    /\ call_stack = <<>>
    /\ context_has_project_manager = TRUE
    /\ current_project_path = ProjectPath
    /\ history_file = NoFile
    /\ calls = <<>>
    /\ io = "none"
    /\ ret = NoReturn
    /\ roundtrip = NoRoundtrip
    /\ scene = EmptyScene
    /\ constructed = NoCommand
    /\ log = <<>>
    /\ snapshot = NoSnapshot
    /\ project_at_rest
    /\ session_at_rest

HistoryExecute ==
    \E command \in AllCommands :
        /\ idle
        /\ held < MaxSaved
        /\ execute(command)
        /\ Track /\ UNCHANGED <<scene_vars, project_vars, session_vars>>

HistoryExecuteReturns == execute_returns("ok") /\ Track /\ UNCHANGED <<scene_vars, project_vars, session_vars>>

HistoryUndo == idle /\ undo /\ Track /\ UNCHANGED <<scene_vars, project_vars, session_vars>>

HistoryUndoReturns == undo_returns("ok") /\ Track /\ UNCHANGED <<scene_vars, project_vars, session_vars>>

HistorySave == idle /\ save("ok") /\ Track /\ UNCHANGED <<scene_vars, project_vars, session_vars>>

HistoryLoad == idle /\ load_from_file("ok") /\ Track /\ UNCHANGED <<scene_vars, project_vars, session_vars>>

NextHistory ==
    \/ HistoryExecute
    \/ HistoryExecuteReturns
    \/ HistoryUndo
    \/ HistoryUndoReturns
    \/ HistorySave
    \/ HistoryLoad

SpecHistory == InitHistory /\ [][NextHistory]_vars

----------------------------------------------------------------------------
(* SpecScene: one canvas command is constructed on some scene and its      *)
(* execute() and undo() are called in any order, with the command written   *)
(* to the history file and read back at any point.                          *)

\* SpecScene: at most this many calls are made on the command.
MaxCalls == 4

Positions == Coords \X Coords

\* The group_color of a node that is shown in the colour of the first group
\* holding it.
shown_color(groups, node_id) ==
    IF groups["g1"].present /\ contains(groups["g1"].node_ids, node_id)
    THEN groups["g1"].color
    ELSE IF groups["g2"].present /\ contains(groups["g2"].node_ids, node_id)
    THEN groups["g2"].color
    ELSE None

\* Scenes with one or two nodes and one or two groups.  node_ids never holds
\* an id twice (a node is appended only when it is not in the list).
Scenes ==
    {[nodes  |-> [node_id \in NodeIds |->
                    IF node_id = "n1"
                    THEN node_item(TRUE, pos1, shown_color(groups, "n1"))
                    ELSE node_item(has_n2, <<1, 1>>,
                                   IF has_n2 THEN shown_color(groups, "n2") ELSE None)],
      groups |-> groups] :
        pos1 \in {<<0, 0>>, <<1, 0>>},
        has_n2 \in BOOLEAN,
        groups \in
            {[group_id \in GroupIds |->
                 IF group_id = "g1"
                 THEN group_item(TRUE, pos_g1, ids_g1, "#78909C")
                 ELSE IF has_g2
                 THEN group_item(TRUE, <<1, 1>>, ids_g2, "#FFB300")
                 ELSE group_item(FALSE, <<0, 0>>, <<>>, None)] :
                pos_g1 \in {<<0, 0>>, <<0, 1>>},
                ids_g1 \in {<<>>, <<"n1">>, <<"n1", "n2">>, <<"n2", "n1">>},
                has_g2 \in BOOLEAN,
                ids_g2 \in {<<>>, <<"n2">>}}}

InitScene ==
    /\ undo_stack = <<>>
    /\ redo_stack = <<>>
    /\ is_undoing = FALSE
    /\ call_stack = <<>>
    /\ context_has_project_manager = TRUE
    /\ current_project_path = None
    /\ history_file = NoFile
    /\ calls = <<>>
    /\ io = "none"
    /\ ret = NoReturn
    /\ roundtrip = NoRoundtrip
    /\ scene \in Scenes
    /\ constructed = NoCommand
    /\ log = <<>>
    /\ snapshot = NoSnapshot
    /\ project_at_rest
    /\ session_at_rest

DragGroup ==
    \E group_id \in GroupIds, new_pos \in Positions :
        drag_group(group_id, new_pos) /\ UNCHANGED <<project_vars, session_vars>>

NewNodePosition ==
    \E node_id \in NodeIds, old_pos \in Positions, new_pos \in Positions :
        new_node_position(node_id, old_pos, new_pos) /\ UNCHANGED <<project_vars, session_vars>>

NewNodeGroupChange ==
    \E node_id \in NodeIds, old_group_id \in GroupIds \cup {None},
       new_group_id \in GroupIds \cup {None} :
        new_node_group_change(node_id, old_group_id, new_group_id)
        /\ UNCHANGED <<project_vars, session_vars>>

Apply == Len(log) < MaxCalls /\ apply /\ UNCHANGED <<project_vars, session_vars>>

Reverse == Len(log) < MaxCalls /\ reverse /\ UNCHANGED <<project_vars, session_vars>>

Reload == Len(log) < MaxCalls /\ reload /\ UNCHANGED <<project_vars, session_vars>>

NextScene ==
    \/ DragGroup
    \/ NewNodePosition
    \/ NewNodeGroupChange
    \/ Apply
    \/ Reverse
    \/ Reload

SpecScene == InitScene /\ [][NextScene]_vars

----------------------------------------------------------------------------
(* SpecTodo: a TodoToggleCommand is constructed for a todo of the dock's    *)
(* list and its execute() and undo() are called in any order.              *)

\* SpecTodo: the dock's list has at most this many todos.
MaxTodos == 2

Todos == {[text |-> "todo", done |-> done] : done \in BOOLEAN}

Docks ==
    {dock(TRUE, todos) : todos \in BoundedSeq(Todos, MaxTodos)}
        \cup {dock(FALSE, <<>>)}

InitTodo ==
    /\ undo_stack = <<>>
    /\ redo_stack = <<>>
    /\ is_undoing = FALSE
    /\ call_stack = <<>>
    /\ context_has_project_manager = TRUE
    /\ current_project_path = None
    /\ history_file = NoFile
    /\ calls = <<>>
    /\ io = "none"
    /\ ret = NoReturn
    /\ roundtrip = NoRoundtrip
    /\ scene = EmptyScene
    /\ constructed = NoCommand
    /\ log = <<>>
    /\ snapshot = NoSnapshot
    /\ project_data = py_none
    /\ asset_files = {}
    /\ project_dock \in Docks
    /\ entity = py_none
    /\ record = py_none
    /\ returned = NoResult
    /\ session_at_rest

NewTodoToggle ==
    \E todo_index \in 0..(MaxTodos - 1), new_state \in BOOLEAN :
        /\ project_dock.present => todo_index < Len(project_dock.todos)
        /\ new_todo_toggle(todo_index, new_state)
        /\ UNCHANGED session_vars

ApplyTodo == Len(log) < MaxCalls /\ apply_todo /\ UNCHANGED session_vars

ReverseTodo == Len(log) < MaxCalls /\ reverse_todo /\ UNCHANGED session_vars

NextTodo ==
    \/ NewTodoToggle
    \/ ApplyTodo
    \/ ReverseTodo

SpecTodo == InitTodo /\ [][NextTodo]_vars

----------------------------------------------------------------------------
(* SpecEntity: an entity of any of the seven classes is written with       *)
(* to_dict() and read with from_dict(), or a dict that is partial,         *)
(* malformed or of an older version is read with from_dict().              *)

ImagePath == <<"assets", "images", "a.png">>

PaperPath == <<"assets", "papers", "a.md">>

PositionObjects == {Position(x, y) : x \in Coords, y \in Coords}

SnippetObjects ==
    {Snippet("s1", type, content, "") :
        type \in {"text", "image"}, content \in {empty_str, ImagePath}}

NodeMetadataObjects ==
    {NodeMetadata("Title", md, "", "") : md \in {empty_str, PaperPath}}
        \cup {NodeMetadata("", empty_str, "Module", "input")}

TextSnippet == Snippet("s1", "text", <<"a note">>, "")

ImageSnippet == Snippet("s2", "image", ImagePath, "From: Title")

NodeDataObjects ==
    {NodeData(id, type, Position(0, 1), py_list(tags), metadata, py_list(snippets)) :
        id \in {"n1", "n2"},
        type \in {"pipeline_module", "reference_paper"},
        tags \in {<<>>, <<"a", "b">>, <<"b", "a">>},
        metadata \in NodeMetadataObjects,
        snippets \in {<<>>, <<TextSnippet, ImageSnippet>>, <<ImageSnippet, TextSnippet>>}}

EdgeDataObjects ==
    {EdgeData("e1", source_id, target_id) :
        source_id \in {"n1", "n2"}, target_id \in {"n1", "n2"}}

GroupDataObjects ==
    {GroupData("g1", "Group", Position(1, 0), "#78909C", py_list(node_ids)) :
        node_ids \in {<<>>, <<"n1", "n2">>, <<"n2", "n1">>}}

Node1 ==
    NodeData("n1", "pipeline_module", Position(0, 0), py_list(<<"a">>),
             NodeMetadata("", empty_str, "Module", "input"), py_list(<<TextSnippet>>))

Node2 ==
    NodeData("n2", "reference_paper", Position(1, 1), py_list(<<>>),
             NodeMetadata("Title", PaperPath, "", ""), py_list(<<ImageSnippet>>))

TagA == [name |-> "a", color |-> "#FF5722"]

TagB == [name |-> "b", color |-> None]

ProjectDataObjects ==
    {ProjectData(py_list(global_tags), py_list(nodes), py_list(edges),
                 py_list(groups), py_list(todos)) :
        global_tags \in {<<>>, <<TagA, TagB>>, <<TagB, TagA>>},
        nodes \in {<<>>, <<Node1, Node2>>, <<Node2, Node1>>},
        edges \in {<<>>, <<EdgeData("e1", "n1", "n2"), EdgeData("e2", "n2", "n1")>>,
                   <<EdgeData("e2", "n2", "n1"), EdgeData("e1", "n1", "n2")>>},
        groups \in {<<>>, <<GroupData("g1", "Group", Position(0, 0), "#78909C",
                                     py_list(<<"n2", "n1">>)),
                           GroupData("g2", "Other", Position(1, 1), "#4CAF50",
                                     py_list(<<>>))>>},
        todos \in {<<>>, <<[text |-> "x", done |-> FALSE], [text |-> "y", done |-> TRUE]>>}}

\* The valid entities drawn
Objects ==
    PositionObjects \cup SnippetObjects \cup NodeMetadataObjects
        \cup NodeDataObjects \cup EdgeDataObjects \cup GroupDataObjects
        \cup ProjectDataObjects

\* Dicts that lack fields; the fields they have hold valid values.
PartialRecords ==
    {[x |-> 1],
     [id |-> "n1"],
     [id |-> "n1", position |-> [y |-> 1]],
     [id |-> "g1", node_ids |-> py_list(<<"n1">>)],
     [source_id |-> "n1"],
     [nodes |-> py_list(<<[id |-> "n1"], [type |-> "reference_paper"]>>)],
     [description |-> "d", edges |-> py_list(<<[id |-> "e1"]>>)]}

\* Dicts with null where a list or a dict is expected.
MalformedRecords ==
    {[id |-> "n1", tags |-> py_none],
     [id |-> "n1", position |-> py_none],
     [id |-> "n1", metadata |-> py_none],
     [id |-> "n1", snippets |-> py_none],
     [id |-> "n1", snippets |-> py_list(<<py_none>>)],
     [id |-> "g1", node_ids |-> py_none],
     [global_tags |-> py_none],
     [nodes |-> py_none],
     [nodes |-> py_list(<<[id |-> "n1"], [id |-> "n2", tags |-> py_none]>>)],
     [groups |-> py_list(<<[id |-> "g1", position |-> py_none]>>)]}

\* Project documents of the version in which global_tags held strings.
LegacyRecords ==
    {[global_tags |-> py_list(global_tags)] :
        global_tags \in {<<py_str("a"), py_str("b")>>,
                         <<py_str("b"), TagA, py_str("a")>>,
                         <<TagB, py_str("a"), py_none>>,
                         <<TagA, TagB>>}}

Records == PartialRecords \cup MalformedRecords \cup LegacyRecords

InitEntity ==
    /\ undo_stack = <<>>
    /\ redo_stack = <<>>
    /\ is_undoing = FALSE
    /\ call_stack = <<>>
    /\ context_has_project_manager = TRUE
    /\ current_project_path = None
    /\ history_file = NoFile
    /\ calls = <<>>
    /\ io = "none"
    /\ ret = NoReturn
    /\ roundtrip = NoRoundtrip
    /\ scene = EmptyScene
    /\ constructed = NoCommand
    /\ log = <<>>
    /\ snapshot = NoSnapshot
    /\ project_data = py_none
    /\ asset_files = {}
    /\ project_dock = dock(TRUE, <<>>)
    /\ \/ entity \in Objects /\ record = py_none
       \/ entity = py_none /\ record \in Records
       \/ entity = py_none /\ record = empty_dict
    /\ returned = NoResult
    /\ session_at_rest

ToDict == entity_to_dict_call /\ UNCHANGED session_vars

FromDict ==
    \E cls \in EntityClasses : entity_from_dict_call(cls) /\ UNCHANGED session_vars

NextEntity ==
    \/ ToDict
    \/ FromDict

SpecEntity == InitEntity /\ [][NextEntity]_vars

----------------------------------------------------------------------------
(* SpecProject: a project is open or not, with asset files on disk, and    *)
(* validate_and_clean_data, get_referenced_assets and                      *)
(* cleanup_orphaned_assets are called in any order; unlink() may fail.     *)

PaperA == <<"assets", "papers", "a.md">>

PaperB == <<"assets", "papers", "b.md">>

ImageA == <<"assets", "images", "a.png">>

ImageB == <<"assets", "images", "b.png">>

AssetFiles == {PaperA, PaperB, ImageA, ImageB}

\* A reference node with a paper and an image
ReferenceNode ==
    NodeData("n1", "reference_paper", Position(0, 0), py_list(<<>>),
             NodeMetadata("Title", PaperA, "", ""),
             py_list(<<Snippet("s1", "image", ImageA, "")>>))

\* A module node that has a markdown path all the same, a text snippet whose
\* text is a file's path, and an image snippet
ModuleNode ==
    NodeData("n1", "pipeline_module", Position(0, 0), py_list(<<>>),
             NodeMetadata("", PaperA, "Module", "input"),
             py_list(<<Snippet("s1", "text", ImageA, ""),
                       Snippet("s2", "image", ImageB, "")>>))

\* A reference node without a paper, with an image snippet without content
BareNode ==
    NodeData("n2", "reference_paper", Position(1, 1), py_list(<<>>),
             NodeMetadata("Title", empty_str, "", ""),
             py_list(<<Snippet("s3", "image", empty_str, "")>>))

\* Edges between n1, n2 and n3, which no project drawn has
Edge(id, source_id, target_id) == EdgeData(id, source_id, target_id)

Projects ==
    {ProjectData(py_list(<<>>), py_list(nodes), py_list(edges), py_list(groups),
                 py_list(<<>>)) :
        nodes \in {<<>>, <<ReferenceNode>>, <<ModuleNode, BareNode>>},
        edges \in {<<>>,
                   <<Edge("e1", "n1", "n1")>>,
                   <<Edge("e1", "n1", "n2"), Edge("e2", "n3", "n1"),
                     Edge("e3", "n2", "n3"), Edge("e4", "n2", "n1")>>,
                   <<Edge("e1", "n2", "n1"), Edge("e2", "n1", "n3"),
                     Edge("e3", "n1", "n1")>>},
        groups \in {<<>>,
                    <<GroupData("g1", "Group", Position(0, 0), "#78909C",
                                py_list(<<"n1", "n3">>))>>}}

InitProject ==
    /\ undo_stack = <<>>
    /\ redo_stack = <<>>
    /\ is_undoing = FALSE
    /\ call_stack = <<>>
    /\ context_has_project_manager = TRUE
    /\ \/ current_project_path = None /\ project_data = py_none
       \/ current_project_path = ProjectPath /\ project_data \in Projects
    /\ history_file = NoFile
    /\ calls = <<>>
    /\ io = "none"
    /\ ret = NoReturn
    /\ roundtrip = NoRoundtrip
    /\ scene = EmptyScene
    /\ constructed = NoCommand
    /\ log = <<>>
    /\ snapshot = NoSnapshot
    /\ asset_files \in SUBSET AssetFiles
    /\ project_dock = dock(TRUE, <<>>)
    /\ entity = py_none
    /\ record = py_none
    /\ returned = NoResult
    /\ session_at_rest

GetReferencedAssets == get_referenced_assets /\ UNCHANGED session_vars

CleanupOrphanedAssets ==
    \E failing \in SUBSET asset_files :
        cleanup_orphaned_assets(failing) /\ UNCHANGED session_vars

ValidateAndCleanData ==
    \E failing \in SUBSET asset_files :
        validate_and_clean_data(failing) /\ UNCHANGED session_vars

CloseProject == project_is_open /\ close_project /\ UNCHANGED <<projects_dir, session>>

NextProject ==
    \/ GetReferencedAssets
    \/ CleanupOrphanedAssets
    \/ ValidateAndCleanData
    \/ CloseProject

SpecProject == InitProject /\ [][NextProject]_vars

----------------------------------------------------------------------------
(* SpecLifecycle: a ProjectManager as __init__ leaves it, with project      *)
(* directories on disk whose project_data.json may be missing, unreadable,  *)
(* not UTF-8, not JSON, or JSON that is not a project; create_project,      *)
(* open_project, save_project, close_project and delete_project are called  *)
(* in any order, and reads, writes, mkdir and rmtree may fail.              *)

\* A project with a tag and a node, as save_project writes it
SavedProject ==
    ProjectData(py_list(<<TagA>>), py_list(<<Node1>>), py_list(<<>>),
                py_list(<<>>), py_list(<<>>))

\* What project_data.json of p1 may hold: a project, text cut short, bytes
\* that are not UTF-8, a JSON array, a JSON object whose "nodes" is null
DataFiles ==
    {NoDataFile, to_json(SavedProject), NotJson, NotUtf8,
     json_text(py_list(<<>>)), json_text([nodes |-> py_none])}

InitLifecycle ==
    /\ undo_stack = <<>>
    /\ redo_stack = <<>>
    /\ is_undoing = FALSE
    /\ call_stack = <<>>
    /\ context_has_project_manager = TRUE
    /\ current_project_path = None
    /\ history_file = NoFile
    /\ calls = <<>>
    /\ io = "none"
    /\ ret = NoReturn
    /\ roundtrip = NoRoundtrip
    /\ scene = EmptyScene
    /\ constructed = NoCommand
    /\ log = <<>>
    /\ snapshot = NoSnapshot
    /\ project_at_rest
    /\ current_project_name = None
    /\ \E data_file \in DataFiles, other \in {NoDirectory,
                project_directory(TRUE, to_json(new_project_data))} :
           projects_dir = [name \in ProjectNames |->
                              IF name = "p1" THEN project_directory(TRUE, data_file)
                              ELSE other]
    /\ session = NoSession

\* What no ProjectManager call of this specification writes
lifecycle_frame ==
    UNCHANGED <<undo_stack, redo_stack, is_undoing, call_stack,
                context_has_project_manager, history_file, calls, io, ret,
                roundtrip, scene_vars, asset_files, project_dock, entity, record,
                session>>

CreateProject ==
    \E name \in ProjectNames, outcome \in CreateOutcomes :
        create_project(name, outcome) /\ lifecycle_frame

OpenProject ==
    \E name \in ProjectNames, outcome \in OpenOutcomes :
        open_project(name, outcome) /\ lifecycle_frame

SaveProject ==
    \E outcome \in SaveOutcomes : save_project(outcome) /\ lifecycle_frame

CloseLifecycleProject ==
    close_project /\ UNCHANGED <<projects_dir, session>>

DeleteProject ==
    \E name \in ProjectNames, outcome \in DeleteOutcomes :
        delete_project(name, outcome) /\ lifecycle_frame

NextLifecycle ==
    \/ CreateProject
    \/ OpenProject
    \/ SaveProject
    \/ CloseLifecycleProject
    \/ DeleteProject

SpecLifecycle == InitLifecycle /\ [][NextLifecycle]_vars

----------------------------------------------------------------------------
(* SpecSession: a project is open and has been saved; canvas and colour     *)
(* commands are constructed on the state of the moment and handed to        *)
(* execute(), undo() and redo() are called, and save_project is called, one *)
(* call after the other.  Every command method returns and every write of   *)
(* the history file succeeds; a command is constructed while nothing is     *)
(* undone.  A NodeGroupChangeCommand may name any groups. *)

\* SpecSession, SpecRemove: at most this many commands are held.
MaxSession == 2

\* Scenes with n1 and n2, n1 the first of g1's nodes, and an empty g2
SessionScenes ==
    {sc \in Scenes :
        /\ sc.nodes["n2"].present
        /\ sc.nodes["n1"].pos = <<0, 0>>
        /\ sc.groups["g1"].pos = <<0, 0>>
        /\ Len(sc.groups["g1"].node_ids) > 0
        /\ sc.groups["g1"].node_ids[1] = "n1"
        /\ sc.groups["g2"].present
        /\ sc.groups["g2"].node_ids = <<>>}

PipelineColors == {"#000000"}

ReferenceColors == {"#4CAF50", "#000000"}

ModuleColors == {"#000000"}

\* The groups a NodeGroupChangeCommand is constructed with: the node's group
\* and another one, the same group twice, and a group the node is in already.
GroupChanges == {<<"g1", "g2">>, <<"g1", "g1">>, <<None, "g1">>, <<"g2", None>>}

InitSession ==
    /\ undo_stack = <<>>
    /\ redo_stack = <<>>
    /\ is_undoing = FALSE
    /\ call_stack = <<>>
    /\ context_has_project_manager = TRUE
    /\ current_project_path = ProjectPath
    /\ history_file = NoFile
    /\ calls = <<>>
    /\ io = "none"
    /\ ret = NoReturn
    /\ roundtrip = NoRoundtrip
    /\ scene \in SessionScenes
    /\ constructed = NoCommand
    /\ log = <<>>
    /\ snapshot = NoSnapshot
    /\ project_at_rest
    /\ current_project_name = "p1"
    /\ projects_dir =
           [name \in ProjectNames |->
               IF name = "p1" THEN project_directory(TRUE, to_json(new_project_data))
               ELSE NoDirectory]
    /\ session = [kind |-> "session",
                  before |-> graph(scene, project_data),
                  after |-> graph(scene, project_data),
                  faithful |-> TRUE]

\* No call is in progress, no command waits for its execute(), nothing is
\* undone and the history has room.
may_construct ==
    idle /\ constructed = NoCommand /\ redo_stack = <<>> /\ held < MaxSession

SessionDragGroup ==
    \E new_pos \in {<<0, 1>>} :
        /\ may_construct
        /\ new_pos # scene.groups["g1"].pos
        /\ drag_group("g1", new_pos)
        /\ UNCHANGED <<project_vars, session_vars>>

SessionNewNodePosition ==
    \E node_id \in {"n1"}, new_pos \in {<<1, 0>>} :
        /\ may_construct
        /\ new_pos # scene.nodes[node_id].pos
        /\ new_command(NodePositionCommand(node_id, scene.nodes[node_id].pos[1],
                                           scene.nodes[node_id].pos[2],
                                           new_pos[1], new_pos[2]))

SessionNewNodeGroupChange ==
    \E change \in GroupChanges :
        /\ may_construct
        /\ new_command(NodeGroupChangeCommand("n1", change[1], change[2]))

SessionNewEdgeColors ==
    \E pipeline \in PipelineColors, reference \in ReferenceColors :
        /\ may_construct
        /\ <<pipeline, reference>> # <<project_data.pipeline_edge_color,
                                       project_data.reference_edge_color>>
        /\ new_command(GlobalEdgeColorChangeCommand(
                           project_data.pipeline_edge_color,
                           project_data.reference_edge_color, pipeline, reference))

SessionNewModuleColor ==
    \E module_type \in {"process", "group"}, color \in ModuleColors :
        /\ may_construct
        /\ color # palette_color(project_data, module_type)
        /\ new_command(ModulePaletteColorChangeCommand(
                           module_type, palette_color(project_data, module_type), color))

SessionExecute == idle /\ session_execute /\ Track

SessionExecuteReturns == session_execute_returns("ok") /\ Track

SessionUndo == idle /\ constructed = NoCommand /\ session_undo /\ Track

SessionUndoReturns == session_undo_returns("ok") /\ Track

SessionRedo == idle /\ constructed = NoCommand /\ session_redo /\ Track

SessionRedoReturns == session_redo_returns("ok") /\ Track

SessionSaveProject ==
    /\ idle
    /\ constructed = NoCommand
    /\ save_project("ok")
    /\ lifecycle_frame

NextSession ==
    \/ SessionDragGroup
    \/ SessionNewNodePosition
    \/ SessionNewNodeGroupChange
    \/ SessionNewEdgeColors
    \/ SessionNewModuleColor
    \/ SessionExecute
    \/ SessionExecuteReturns
    \/ SessionUndo
    \/ SessionUndoReturns
    \/ SessionRedo
    \/ SessionRedoReturns
    \/ SessionSaveProject

SpecSession == InitSession /\ [][NextSession]_vars

----------------------------------------------------------------------------
(* SpecRemove: a project with nodes that name asset files is open; nodes    *)
(* are removed with RemoveNodeCommands run by the manager, and              *)
(* validate_and_clean_data and cleanup_orphaned_assets are called between   *)
(* the calls of execute(), undo() and redo().                               *)

RemoveProjects ==
    {pd \in Projects :
        /\ Len(pd.nodes.items) > 0
        /\ pd.groups.items = <<>>
        /\ Len(pd.edges.items) \in {0, 4}}

InitRemove ==
    /\ undo_stack = <<>>
    /\ redo_stack = <<>>
    /\ is_undoing = FALSE
    /\ call_stack = <<>>
    /\ context_has_project_manager = TRUE
    /\ current_project_path = ProjectPath
    /\ project_data \in RemoveProjects
    /\ history_file = NoFile
    /\ calls = <<>>
    /\ io = "none"
    /\ ret = NoReturn
    /\ roundtrip = NoRoundtrip
    /\ scene = EmptyScene
    /\ constructed = NoCommand
    /\ log = <<>>
    /\ snapshot = NoSnapshot
    /\ asset_files \in {AssetFiles, AssetFiles \ {PaperB}}
    /\ project_dock = dock(TRUE, <<>>)
    /\ entity = py_none
    /\ record = py_none
    /\ returned = NoResult
    /\ current_project_name = "p1"
    /\ projects_dir =
           [name \in ProjectNames |->
               IF name = "p1" THEN project_directory(TRUE, to_json(project_data))
               ELSE NoDirectory]
    /\ session = [kind |-> "session",
                  before |-> graph(scene, project_data),
                  after |-> graph(scene, project_data),
                  faithful |-> TRUE]

\* RemoveNodeCommand(context, node.to_dict(), [edge.to_dict() for the edges
\* at the node]) is constructed for a node of the project.
NewRemoveNode ==
    \E i \in 1..Len(project_data.nodes.items) :
        LET node == project_data.nodes.items[i]
            at_node(edge) == edge.source_id = node.id \/ edge.target_id = node.id
            connected == SelectSeq(project_data.edges.items, at_node)
        IN  /\ may_construct
            /\ new_command(RemoveNodeCommand(
                               entity_to_dict(node),
                               [j \in 1..Len(connected) |-> entity_to_dict(connected[j])]))

RemoveValidateAndCleanData ==
    \E failing \in {{}, asset_files} :
        /\ idle
        /\ constructed = NoCommand
        /\ validate_and_clean_data(failing)
        /\ UNCHANGED session_vars

RemoveCleanupOrphanedAssets ==
    \E failing \in {{}, asset_files} :
        /\ idle
        /\ constructed = NoCommand
        /\ cleanup_orphaned_assets(failing)
        /\ UNCHANGED session_vars

NextRemove ==
    \/ NewRemoveNode
    \/ SessionExecute
    \/ SessionExecuteReturns
    \/ SessionUndo
    \/ SessionUndoReturns
    \/ SessionRedo
    \/ SessionRedoReturns
    \/ RemoveValidateAndCleanData
    \/ RemoveCleanupOrphanedAssets

SpecRemove == InitRemove /\ [][NextRemove]_vars

----------------------------------------------------------------------------
(* Properties of UndoManager.execute / undo / redo *)

\* C1: execute(cmd) called while the guard is false starts cmd.execute()
\* exactly once (it never returns at once), and when cmd.execute() has
\* returned, without a second call of it, cmd is the newest entry of
\* undo_stack and redo_stack is empty.
C1_ExecuteAppliesAndRecords ==
    [][ /\ immediate("execute", "None") => is_undoing
        /\ entered("execute") =>
              /\ ~is_undoing
              /\ calls' = <<call(top(call_stack').command, "execute")>>
              /\ UNCHANGED <<undo_stack, redo_stack>>
        /\ finished("execute", "None") =>
              /\ calls' = <<>>
              /\ undo_stack' # <<>>
              /\ top(undo_stack') = top(call_stack).command
              /\ redo_stack' = <<>>
      ]_vars

\* execute() has just returned with the guard false, its command on top of
\* another one.
C1_Witness ==
    /\ ret = returns("execute", "None")
    /\ ~is_undoing
    /\ call_stack = <<>>
    /\ Len(undo_stack) = 2
    /\ undo_stack[1] # undo_stack[2]
    /\ redo_stack = <<>>

\* C2: execute(cmd) called while the guard is true changes nothing: no command
\* method is started, both stacks (the redo stack too) stay as they are, the
\* history file is not opened.
C2_ExecuteSuppressed ==
    [][ (is_undoing /\ (ret'.op = "execute" \/ entered("execute"))) =>
              /\ immediate("execute", "None")
              /\ calls' = <<>>
              /\ io' = "none"
              /\ UNCHANGED <<undo_stack, redo_stack, is_undoing, history_file>>
      ]_vars

\* execute() has just returned from inside a running undo()/redo(), and the
\* redo stack still holds a command.
C2_Witness ==
    /\ ret = returns("execute", "None")
    /\ is_undoing
    /\ call_stack # <<>>
    /\ redo_stack # <<>>
    /\ undo_stack # <<>>

\* C3: undo() on a non-empty undo_stack is never refused; it takes the newest
\* entry off undo_stack, leaving the others in place, and starts that
\* command's undo() once; when that has returned the command becomes the
\* newest entry of redo_stack, the others staying in place, and undo() returns
\* True.
C3_UndoMovesNewest ==
    [][ /\ immediate("undo", "False") => ~can_undo
        /\ entered("undo") =>
              /\ can_undo
              /\ undo_stack = Append(undo_stack', top(call_stack').command)
              /\ redo_stack' = redo_stack
              /\ calls' = <<call(top(call_stack').command, "undo")>>
        /\ finished("undo", "True") =>
              /\ top(call_stack).op = "undo"
              /\ redo_stack' = Append(redo_stack, top(call_stack).command)
              /\ undo_stack' = undo_stack
              /\ calls' = <<>>
      ]_vars

\* undo() has just returned True with other entries left on both stacks.
C3_Witness ==
    /\ ret = returns("undo", "True")
    /\ call_stack = <<>>
    /\ undo_stack # <<>>
    /\ Len(redo_stack) = 2
    /\ redo_stack[1] # redo_stack[2]

\* C4: redo() on a non-empty redo_stack is never refused; it takes the newest
\* entry off redo_stack, leaving the others in place, and starts that
\* command's execute() once; when that has returned the command becomes the
\* newest entry of undo_stack and redo() returns True.  After undo() and then
\* at once redo(), both stacks are as they were before the undo().
C4_RedoMovesNewestBack ==
    /\ [][ /\ immediate("redo", "False") => ~can_redo
           /\ entered("redo") =>
                 /\ can_redo
                 /\ redo_stack = Append(redo_stack', top(call_stack').command)
                 /\ undo_stack' = undo_stack
                 /\ calls' = <<call(top(call_stack').command, "execute")>>
           /\ finished("redo", "True") =>
                 /\ top(call_stack).op = "redo"
                 /\ undo_stack' = Append(undo_stack, top(call_stack).command)
                 /\ redo_stack' = redo_stack
                 /\ calls' = <<>>
         ]_vars
    /\ [](roundtrip.stage = 4 =>
              /\ undo_stack = roundtrip.undo_stack
              /\ redo_stack = roundtrip.redo_stack)

\* An undo() and the redo() after it have completed, with entries on both
\* stacks.
C4_Witness ==
    /\ roundtrip.stage = 4
    /\ ret = returns("redo", "True")
    /\ Len(undo_stack) = 2
    /\ undo_stack[1] # undo_stack[2]
    /\ redo_stack # <<>>

\* C5: undo()/redo() return False only on an empty undo/redo stack, and then
\* start no command method and leave both stacks, the guard and the history
\* file alone; they run a command (and so return True) only when
\* can_undo()/can_redo() held at the call.
C5_EmptyStackRefused ==
    [][ /\ (ret'.op = "undo" /\ ret'.value = "False") =>
              /\ ~can_undo
              /\ calls' = <<>>
              /\ io' = "none"
              /\ UNCHANGED <<undo_stack, redo_stack, is_undoing, history_file,
                             call_stack>>
        /\ (ret'.op = "redo" /\ ret'.value = "False") =>
              /\ ~can_redo
              /\ calls' = <<>>
              /\ io' = "none"
              /\ UNCHANGED <<undo_stack, redo_stack, is_undoing, history_file,
                             call_stack>>
        /\ (ret'.op = "undo" /\ ret'.value = "True") => finished("undo", "True")
        /\ (ret'.op = "redo" /\ ret'.value = "True") => finished("redo", "True")
        /\ entered("undo") => can_undo
        /\ entered("redo") => can_redo
      ]_vars

\* undo() has just returned False while the redo stack and the file hold
\* commands.
C5_Witness ==
    /\ ret = returns("undo", "False")
    /\ undo_stack = <<>>
    /\ redo_stack # <<>>
    /\ ~is_undoing
    /\ history_file = history_data(undo_stack, redo_stack)

----------------------------------------------------------------------------
(* Capacity (SpecCap) *)

numbered_in_order(stack) ==
    \A i \in 1..Len(stack) :
        stack[i] = TodoToggleCommand(top(stack).todo_index - Len(stack) + i, TRUE)

\* C6: undo_stack never holds more than MAX_HISTORY commands; an execute()
\* that finds it full drops exactly the oldest entry and appends the new
\* command, so that a full undo_stack holds the MAX_HISTORY most recent
\* commands in execution order.
C6_UndoStackCapped ==
    /\ [](Len(undo_stack) <= MAX_HISTORY)
    /\ [](can_undo => numbered_in_order(undo_stack))
    /\ [][ (finished("execute", "None") /\ Len(undo_stack) = MAX_HISTORY) =>
               undo_stack' = Append(pop0(undo_stack), top(call_stack).command)
         ]_vars

\* The command numbered MAX_HISTORY + MaxOver has been executed: the undo stack
\* is full and the MaxOver oldest commands are gone.
C6_Witness ==
    /\ ret = returns("execute", "None")
    /\ Len(undo_stack) = MAX_HISTORY
    /\ undo_stack[1].todo_index = MaxOver + 1
    /\ top(undo_stack).todo_index = MAX_HISTORY + MaxOver

\* The commands an undo()/redo() in progress has popped and not yet pushed.
in_transit ==
    Cardinality({i \in 1..Len(call_stack) : call_stack[i].op \in {"undo", "redo"}})

\* C7: the commands held by undo_stack and redo_stack, with those an
\* undo()/redo() in progress is moving, never number more than MAX_HISTORY, so
\* neither redo_stack nor the undo_stack that redo() pushes onto exceeds
\* MAX_HISTORY.
C7_RedoStackBounded ==
    /\ Len(undo_stack) + Len(redo_stack) + in_transit <= MAX_HISTORY
    /\ Len(redo_stack) <= MAX_HISTORY
    /\ Len(undo_stack) <= MAX_HISTORY

\* redo() has just filled the undo stack again.
C7_Witness ==
    /\ ret = returns("redo", "True")
    /\ Len(undo_stack) = MAX_HISTORY
    /\ redo_stack = <<>>

\* Every command of a full history has been undone.
C7_WitnessFullRedo ==
    /\ Len(redo_stack) = MAX_HISTORY
    /\ undo_stack = <<>>

----------------------------------------------------------------------------
(* The re-entrancy guard *)

undo_or_redo_running ==
    \E i \in 1..Len(call_stack) : call_stack[i].op \in {"undo", "redo"}

\* C8: when the command method run by undo() or redo() raises, the guard is
\* false once the exception has left undo()/redo(), and an execute() called
\* next is not suppressed.
C8_GuardClearedOnException ==
    /\ []((ret.op \in {"undo", "redo"} /\ ret.value = "raise") => ~is_undoing)
    /\ [][ (ret.op \in {"undo", "redo"} /\ ret.value = "raise") =>
               ~immediate("execute", "None")
         ]_vars

\* The exception of a command's undo() has just left a top-level undo().
C8_Witness ==
    /\ ret = returns("undo", "raise")
    /\ call_stack = <<>>
    /\ ~is_undoing

\* C9: the guard is true exactly while an undo()/redo() is in progress: false
\* when none is, true at every point while the command method run by one is
\* running.
C9_GuardHeldWhileRunning ==
    is_undoing <=> undo_or_redo_running

----------------------------------------------------------------------------
(* Persistence after execute / undo / redo *)

completed ==
    \/ finished("execute", "None")
    \/ finished("undo", "True")
    \/ finished("redo", "True")

\* C10: with a project open, after every completed execute/undo/redo (execute
\* not suppressed, undo/redo returning True) the history file is the
\* serialization of both stacks as they are after the operation, oldest first.
C10_FileFollowsStacks ==
    [][ (is_project_open /\ completed) =>
            history_file' = history_data(undo_stack', redo_stack')
      ]_vars

\* What save_to_file does guarantee: with a project open, every completed
\* execute/undo/redo tries to write the file; when the write succeeds the file
\* holds both stacks as they are after the operation, oldest first; when the
\* file cannot be opened it is left as it was.
FileFollowsStacksWhenWritten ==
    [][ (is_project_open /\ completed) =>
            /\ io' \in IOOutcomes
            /\ io' = "ok" =>
                  /\ history_file'.status = "written"
                  /\ Len(history_file'.undo_stack) = Len(undo_stack')
                  /\ Len(history_file'.redo_stack) = Len(redo_stack')
                  /\ \A i \in 1..Len(undo_stack') :
                        history_file'.undo_stack[i] = to_dict(undo_stack'[i])
                  /\ \A i \in 1..Len(redo_stack') :
                        history_file'.redo_stack[i] = to_dict(redo_stack'[i])
            /\ io' = "open_failed" => history_file' = history_file
      ]_vars

\* undo() has just returned True and written both stacks, each holding
\* commands, the redo stack two different ones.
FileWritten ==
    /\ is_project_open
    /\ ret = returns("undo", "True")
    /\ io = "ok"
    /\ undo_stack # <<>>
    /\ Len(redo_stack) = 2
    /\ redo_stack[1] # redo_stack[2]
    /\ history_file = history_data(undo_stack, redo_stack)

----------------------------------------------------------------------------
(* Failure of the write, as the caller sees it *)

write_failed(outcome) == outcome \in {"open_failed", "dump_failed"}

\* C11: when the write of the history file fails during execute/undo/redo
\* (open() or json.dump raises), the caller is told: the operation does not
\* return as a success (None from execute(), True from undo()/redo()).
C11_WriteFailureSurfaced ==
    [][ write_failed(io') => ret'.value \notin {"None", "True"} ]_vars

\* undo() has just returned True although its write of the file failed; the
\* file still holds the stacks as they were before the undo().
WriteFailureHidden ==
    /\ ret = returns("undo", "True")
    /\ io = "open_failed"
    /\ redo_stack # <<>>
    /\ history_file = history_data(Append(undo_stack, top(redo_stack)), pop(redo_stack))

----------------------------------------------------------------------------
(* UndoManager.clear, as the caller sees it *)

\* C15: clear() leaves both stacks empty and changes nothing else: it starts
\* no command method, leaves the scene alone, does not open the history file,
\* and leaves the guard and the calls in progress as they are.
C15_ClearOnlyEmptiesStacks ==
    [][ ret'.op = "clear" =>
            /\ undo_stack' = <<>>
            /\ redo_stack' = <<>>
            /\ calls' = <<>>
            /\ io' = "none"
            /\ UNCHANGED <<history_file, is_undoing, call_stack, scene,
                           context_has_project_manager, current_project_path>>
      ]_vars

\* clear() has just emptied the stacks while the history file still holds the
\* commands that were on them.
C15_Witness ==
    /\ ret = returns("clear", "None")
    /\ undo_stack = <<>>
    /\ redo_stack = <<>>
    /\ history_file.status = "written"
    /\ history_file.undo_stack # <<>>
    /\ history_file.redo_stack # <<>>

----------------------------------------------------------------------------
(* UndoManager.load_from_file, as the caller sees it (SpecLoad) *)

load_failed(result) == result \in {"read_failed", "parse_failed", "entry_failed"}

\* C12: when reading or parsing the history file fails in load_from_file (an
\* I/O error, invalid JSON), undo_stack and redo_stack are after the call
\* exactly what they were before it.
C12_FailedLoadKeepsStacks ==
    [][ (ret'.op = "load_from_file" /\ io' \in {"read_failed", "parse_failed"}) =>
            UNCHANGED <<undo_stack, redo_stack>>
      ]_vars

\* load_from_file has just failed and emptied stacks that held commands.
FailedLoadEmptiesStacks ==
    [][ (ret'.op = "load_from_file" /\ load_failed(io')) =>
            (undo_stack' = <<>> /\ redo_stack' = <<>>)
      ]_vars

\* The entry has a kind tag that the registry does not know, or none.
unrecognized(entry) ==
    is_dict(entry) /\ get(entry, "type", None) \notin DOMAIN command_classes

\* The entry is one that _deserialize_command turns into a command.
loadable(entry) ==
    /\ is_dict(entry)
    /\ get(entry, "type", None) \in DOMAIN command_classes
    /\ ~from_dict_raises(entry)

\* How many of the first i entries are loadable
rank(entries, i) == Cardinality({j \in 1..i : loadable(entries[j])})

\* stack holds the commands of the loadable entries, each one in the place
\* that its rank among them gives it, and nothing else.
holds_loadable(stack, entries) ==
    /\ Len(stack) = rank(entries, Len(entries))
    /\ \A i \in 1..Len(entries) :
           loadable(entries[i]) => stack[rank(entries, i)] = from_dict(entries[i])

C14_BadEntriesDroppedOneByOne ==
    [][ ( /\ ret'.op = "load_from_file"
          /\ io' \notin {"no_file", "read_failed", "parse_failed"} ) =>
            /\ io' = "loaded"
            /\ holds_loadable(undo_stack', history_file.undo_stack)
            /\ holds_loadable(redo_stack', history_file.redo_stack)
      ]_vars

\* What the loops do guarantee: when every entry of the file is a JSON
\* object, the entries that from_dict cannot build are left out one by one.
ObjectEntriesDroppedOneByOne ==
    [][ ( /\ ret'.op = "load_from_file"
          /\ io' \notin {"no_file", "read_failed", "parse_failed"}
          /\ \A i \in 1..Len(history_file.undo_stack) : is_dict(history_file.undo_stack[i])
          /\ \A i \in 1..Len(history_file.redo_stack) : is_dict(history_file.redo_stack[i]) ) =>
            /\ io' = "loaded"
            /\ holds_loadable(undo_stack', history_file.undo_stack)
            /\ holds_loadable(redo_stack', history_file.redo_stack)
      ]_vars

\* A file with a written entry and then a string in its undo_stack has made
\* the load fail: the written entry is not on the undo stack.
StringEntryEmptiesStacks ==
    /\ ret = returns("load_from_file", "None")
    /\ io = "entry_failed"
    /\ history_file.undo_stack = <<WrittenTodoToggle, JsonString>>
    /\ history_file.redo_stack = <<WrittenTodoToggle>>
    /\ undo_stack = <<>>
    /\ redo_stack = <<>>

----------------------------------------------------------------------------
(* The history written and read back (SpecHistory) *)

\* The step is a load_from_file that follows a save_to_file which wrote the
\* stacks as they are.
load_after_save ==
    /\ ret = returns("save_to_file", "None")
    /\ io = "ok"
    /\ ret'.op = "load_from_file"

\* C16: save_to_file and then load_from_file on the same project path give
\* back both stacks: the same lengths, the same order, each command of the
\* class it had with field values equal to those saved.
C16_HistoryRoundTrip ==
    [][ load_after_save =>
            /\ io' = "loaded"
            /\ undo_stack' = undo_stack
            /\ redo_stack' = redo_stack
      ]_vars

\* The two sequences hold the same coordinates for the same nodes.
same_children(loaded, saved) ==
    /\ Len(loaded) = Len(saved)
    /\ \A i \in 1..Len(saved) :
           /\ loaded[i].node_id = saved[i].node_id
           /\ loaded[i].pos.items = saved[i].pos.items

\* The loaded command is the saved one, but for the values of a GroupMove's
\* child_positions, which may have become lists.
same_but_for_tuples(loaded, saved) ==
    /\ loaded.cls = saved.cls
    /\ IF saved.cls = "GroupMoveCommand"
       THEN /\ loaded.group_id = saved.group_id
            /\ loaded.old_pos = saved.old_pos
            /\ loaded.new_pos = saved.new_pos
            /\ loaded.first_execute = saved.first_execute
            /\ same_children(loaded.child_positions, saved.child_positions)
       ELSE loaded = saved

\* What the round trip does give back: every command with its class and its
\* field values, the tuples of a GroupMove's child_positions as lists.
HistoryRoundTripButForTuples ==
    [][ load_after_save =>
            /\ io' = "loaded"
            /\ Len(undo_stack') = Len(undo_stack)
            /\ Len(redo_stack') = Len(redo_stack)
            /\ \A i \in 1..Len(undo_stack) :
                   same_but_for_tuples(undo_stack'[i], undo_stack[i])
            /\ \A i \in 1..Len(redo_stack) :
                   same_but_for_tuples(redo_stack'[i], redo_stack[i])
      ]_vars

\* A GroupMove with a child has come back from the file with the child's
\* position as a list.
ChildPositionsLoadedAsLists ==
    /\ ret = returns("load_from_file", "None")
    /\ io = "loaded"
    /\ redo_stack # <<>>
    /\ undo_stack # <<>>
    /\ top(undo_stack).cls = "GroupMoveCommand"
    /\ top(undo_stack).child_positions # <<>>
    /\ top(undo_stack).child_positions[1].pos = py_list(<<0, 1>>)
    /\ top(undo_stack).old_pos = py_tuple(<<0, 0>>)

----------------------------------------------------------------------------
(* GroupMoveCommand (SpecScene) *)

\* The execute() and undo() calls made on the command, without the reloads
calls_made == SelectSeq(log, LAMBDA step : step # "reload")

did(step) == \E i \in 1..Len(log) : log[i] = step

is_group_move == constructed.cls = "GroupMoveCommand"

\* The step is constructed.execute() / constructed.undo()
applies == log' = Append(log, "execute")

reverses == log' = Append(log, "undo")

\* In sc the group of the command is at pos, and every node recorded in
\* child_positions that the scene has is at its recorded position plus the
\* distance from old_pos to pos.
group_and_children_at(sc, cmd, pos) ==
    /\ sc.groups[cmd.group_id].pos = pos.items
    /\ \A i \in 1..Len(cmd.child_positions) :
           LET child == cmd.child_positions[i]
           IN  sc.nodes[child.node_id].present =>
                   sc.nodes[child.node_id].pos =
                       <<child.pos.items[1] + pos.items[1] - cmd.old_pos.items[1],
                         child.pos.items[2] + pos.items[2] - cmd.old_pos.items[2]>>

\* C17: a GroupMoveCommand that was constructed (not read from the file) is
\* pending until its first execute(): that execute() changes no position and
\* ends the pending state, and every later execute() puts the group and its
\* children at the new position.  A GroupMoveCommand read from the file is
\* not pending: its first execute() already moves the group and its children.
C17_FirstApplyPending ==
    /\ [](is_group_move =>
             (constructed.first_execute <=> (~did("execute") /\ ~did("reload"))))
    /\ [][ (is_group_move /\ applies) =>
               /\ ~constructed'.first_execute
               /\ constructed.first_execute => scene' = scene
               /\ (~constructed.first_execute /\ scene.groups[constructed.group_id].present) =>
                      group_and_children_at(scene', constructed, constructed.new_pos)
         ]_vars

\* A command with a child was read from the file after its undo(), and its
\* first execute() has moved the group and the child to the new position.
C17_Witness ==
    /\ is_group_move
    /\ log = <<"undo", "reload", "execute">>
    /\ constructed.child_positions # <<>>
    /\ constructed.old_pos # constructed.new_pos
    /\ scene = snapshot.after
    /\ scene # snapshot.before

\* A constructed command's first execute() has left the group where undo()
\* had put it.
C17_WitnessPending ==
    /\ is_group_move
    /\ log = <<"undo", "execute">>
    /\ constructed.old_pos # constructed.new_pos
    /\ scene = snapshot.before
    /\ ~constructed.first_execute

\* execute() first, then undo() and execute() in turn
alternating(steps) ==
    \A i \in 1..Len(steps) : steps[i] = IF i % 2 = 1 THEN "execute" ELSE "undo"

----------------------------------------------------------------------------
(* NodePositionCommand (SpecScene) *)

is_node_position == constructed.cls = "NodePositionCommand"

\* sc2 is sc1 but for the position of node_id, which is pos.
only_node_moved(sc1, sc2, node_id, pos) ==
    /\ sc2.groups = sc1.groups
    /\ \A other \in NodeIds \ {node_id} : sc2.nodes[other] = sc1.nodes[other]
    /\ sc2.nodes[node_id].present = sc1.nodes[node_id].present
    /\ sc2.nodes[node_id].group_color = sc1.nodes[node_id].group_color
    /\ sc2.nodes[node_id].pos = pos

\* C19: execute() of a NodePositionCommand puts its node at (new_x, new_y)
\* and undo() puts it at (old_x, old_y), changing no other node and no group;
\* when the scene has no such node both change nothing; execute() and then
\* undo() on a scene where the node was at (old_x, old_y) give that scene back.
C19_NodePositionInverse ==
    /\ [][ (is_node_position /\ applies) =>
               IF scene.nodes[constructed.node_id].present
               THEN only_node_moved(scene, scene', constructed.node_id,
                                    <<constructed.new_x, constructed.new_y>>)
               ELSE scene' = scene
         ]_vars
    /\ [][ (is_node_position /\ reverses) =>
               IF scene.nodes[constructed.node_id].present
               THEN only_node_moved(scene, scene', constructed.node_id,
                                    <<constructed.old_x, constructed.old_y>>)
               ELSE scene' = scene
         ]_vars
    /\ []( ( /\ is_node_position
             /\ calls_made = <<"execute", "undo">>
             /\ \/ ~snapshot.before.nodes[constructed.node_id].present
                \/ snapshot.before.nodes[constructed.node_id].pos =
                       <<constructed.old_x, constructed.old_y>> ) =>
               scene = snapshot.before )

\* A node that was at (old_x, old_y) is back there after execute() and undo().
C19_Witness ==
    /\ is_node_position
    /\ log = <<"execute", "undo">>
    /\ scene.nodes[constructed.node_id].present
    /\ <<constructed.old_x, constructed.old_y>> # <<constructed.new_x, constructed.new_y>>
    /\ scene.nodes[constructed.node_id].pos = <<constructed.old_x, constructed.old_y>>
    /\ scene = snapshot.before

\* execute() and undo() of a command for a node the scene does not have
C19_WitnessNoNode ==
    /\ is_node_position
    /\ log = <<"execute", "undo">>
    /\ ~scene.nodes[constructed.node_id].present
    /\ scene = snapshot.before

----------------------------------------------------------------------------
(* NodeGroupChangeCommand (SpecScene) *)

is_node_group_change == constructed.cls = "NodeGroupChangeCommand"

in_no_group(sc, node_id) ==
    \A group_id \in GroupIds : node_id \notin members(sc, group_id)

\* The scene is one the command was made for: the groups it names exist, the
\* node is in old_group_id (in no group when that is None) and not in
\* new_group_id.
grouping_applicable(sc, cmd) ==
    /\ IF cmd.old_group_id = None
       THEN in_no_group(sc, cmd.node_id)
       ELSE /\ sc.groups[cmd.old_group_id].present
            /\ cmd.node_id \in members(sc, cmd.old_group_id)
    /\ cmd.new_group_id # None =>
            /\ sc.groups[cmd.new_group_id].present
            /\ cmd.node_id \notin members(sc, cmd.new_group_id)

\* C20: on a scene where the node is in old_group_id (in no group when that
\* is None) and not in new_group_id, execute() of a NodeGroupChangeCommand
\* makes the node a member of new_group_id and no longer of old_group_id,
\* and undo() after it gives every group the members it had before.
C20_NodeGroupChangeInverse ==
    /\ [][ (is_node_group_change /\ applies /\ grouping_applicable(scene, constructed)) =>
               /\ constructed.new_group_id # None =>
                      constructed.node_id \in members(scene', constructed.new_group_id)
               /\ constructed.old_group_id # None =>
                      constructed.node_id \notin members(scene', constructed.old_group_id)
               /\ \A group_id \in GroupIds \ {constructed.old_group_id,
                                              constructed.new_group_id} :
                      scene'.groups[group_id] = scene.groups[group_id]
         ]_vars
    /\ []( ( /\ is_node_group_change
             /\ calls_made = <<"execute", "undo">>
             /\ grouping_applicable(snapshot.before, constructed) ) =>
               \A group_id \in GroupIds :
                   members(scene, group_id) = members(snapshot.before, group_id) )

\* A node has been moved from one group to another and back; it is now the
\* last of its group's node_ids where it was the first.
C20_Witness ==
    /\ is_node_group_change
    /\ log = <<"execute", "undo">>
    /\ constructed.old_group_id = "g1"
    /\ constructed.new_group_id = "g2"
    /\ grouping_applicable(snapshot.before, constructed)
    /\ members(scene, "g1") = members(snapshot.before, "g1")
    /\ scene.groups["g1"].node_ids # snapshot.before.groups["g1"].node_ids

----------------------------------------------------------------------------
(* TodoToggleCommand (SpecTodo) *)

is_todo_toggle == constructed.cls = "TodoToggleCommand"

\* The done flag of the todo the command addresses
done_flag(d, cmd) == d.todos[cmd.todo_index + 1].done

\* C21: whatever the done flag of the addressed todo was before execute(),
\* after execute() and then undo() the flag is what it was.
C21_TodoToggleInverse ==
    (is_todo_toggle /\ log = <<"execute", "undo">> /\ project_dock.present) =>
        done_flag(project_dock, constructed) = done_flag(snapshot.before, constructed)

\* When the flag differed from new_state before execute(), execute() and then
\* undo() give the whole list back.
TodoToggleInverseWhenToggled ==
    ( /\ is_todo_toggle
      /\ log = <<"execute", "undo">>
      /\ project_dock.present
      /\ done_flag(snapshot.before, constructed) # constructed.new_state ) =>
        project_dock = snapshot.before

\* The addressed todo already had done = new_state: undo() left it at
\* not new_state.
TodoToggleOfEqualFlag ==
    /\ is_todo_toggle
    /\ log = <<"execute", "undo">>
    /\ project_dock.present
    /\ done_flag(snapshot.before, constructed) = constructed.new_state
    /\ done_flag(project_dock, constructed) = ~constructed.new_state

----------------------------------------------------------------------------
(* Entities (SpecEntity) *)

\* C22: from_dict of the dict that to_dict() of a valid entity has just
\* returned does not raise and returns an entity equal to it field for
\* field, the lists in the same order (all seven classes).
C22_EntityRoundTrip ==
    [][ ( /\ returned'.op = "from_dict"
          /\ returned'.source = "to_dict"
          /\ entity \in Objects ) =>
            (~returned'.raised /\ entity' = entity)
      ]_vars

\* A project with two tags, two nodes, two edges, two groups and two todos,
\* the second node first, has been written and read back.
C22_Witness ==
    /\ returned.op = "from_dict"
    /\ returned.source = "to_dict"
    /\ ~returned.raised
    /\ entity.cls = "ProjectData"
    /\ entity.global_tags.items = <<TagB, TagA>>
    /\ entity.nodes.items = <<Node2, Node1>>
    /\ Len(entity.edges.items) = 2
    /\ Len(entity.groups.items) = 2
    /\ entity.groups.items[1].node_ids.items = <<"n2", "n1">>
    /\ Len(entity.todos.items) = 2

\* C23: from_dict of a dict never raises, whatever fields the dict lacks and
\* whatever it holds where a list or a dict is expected.
C23_FromDictTotal ==
    (returned.op = "from_dict" /\ is_py_dict(record)) => ~returned.raised

\* from_dict of a dict that only lacks fields does not raise.
FromDictOfPartialRecord ==
    (returned.op = "from_dict" /\ record \in PartialRecords) => ~returned.raised

\* NodeData.from_dict({"id": "n1", "tags": None}) has raised.
NullForListRaises ==
    /\ returned.op = "from_dict"
    /\ returned.cls = "NodeData"
    /\ record = [id |-> "n1", tags |-> py_none]
    /\ returned.raised

is_str(value) == "py" \in DOMAIN value /\ value.py = "str"

\* C24: the global_tags of the project that ProjectData.from_dict returns has
\* as many entries as the one of the dict, in the same order: {name: s,
\* color: None} for a string s, and the entry itself for anything else.
C24_LegacyTagsMigrated ==
    ( /\ returned.op = "from_dict"
      /\ returned.cls = "ProjectData"
      /\ ~returned.raised
      /\ "global_tags" \in DOMAIN record ) =>
        LET old == record.global_tags.items
            new == entity.global_tags.items
        IN  /\ Len(new) = Len(old)
            /\ \A i \in 1..Len(old) :
                   IF is_str(old[i])
                   THEN new[i] = [name |-> old[i].value, color |-> None]
                   ELSE new[i] = old[i]

\* ["b", {name: "a", color: "#FF5722"}, "a"] has been read.
C24_Witness ==
    /\ returned.op = "from_dict"
    /\ returned.cls = "ProjectData"
    /\ ~returned.raised
    /\ record = [global_tags |-> py_list(<<py_str("b"), TagA, py_str("a")>>)]
    /\ entity.global_tags.items =
           <<[name |-> "b", color |-> None], TagA, [name |-> "a", color |-> None]>>

----------------------------------------------------------------------------
(* ProjectManager.validate_and_clean_data (SpecProject) *)

\* The step is a validate_and_clean_data() call on an open project.
validates == returned'.op = "validate_and_clean_data" /\ project_is_open

\* C25: validate_and_clean_data on an open project leaves the edges whose
\* source_id and target_id are both ids of nodes, in the order they had,
\* removes the others and returns their number as edges_removed; afterwards
\* both ends of every edge are nodes.
C25_ValidationRemovesDanglingEdges ==
    [][ validates =>
            LET old == project_data.edges.items
                new == project_data'.edges.items
                ids == {project_data.nodes.items[i].id :
                            i \in 1..Len(project_data.nodes.items)}
                connected(edge) == {edge.source_id, edge.target_id} \subseteq ids
            IN  /\ new = SelectSeq(old, connected)
                /\ returned'.value.edges_removed =
                       Cardinality({i \in 1..Len(old) : ~connected(old[i])})
                /\ project_data'.nodes = project_data.nodes
                /\ \A i \in 1..Len(new) : connected(new[i])
      ]_vars

\* Of e1 (n1, n2), e2 (n3, n1), e3 (n2, n3), e4 (n2, n1) the call has removed
\* e2 and e3.
C25_Witness ==
    /\ returned.op = "validate_and_clean_data"
    /\ project_is_open
    /\ returned.previous.op = "none"
    /\ returned.value.edges_removed = 2
    /\ project_data.edges.items = <<Edge("e1", "n1", "n2"), Edge("e4", "n2", "n1")>>

\* C26: a validate_and_clean_data() call that follows another one at once
\* removes no edge and returns edges_removed = 0.
C26_ValidationIdempotent ==
    [][ (returned.op = "validate_and_clean_data" /\ validates) =>
            /\ returned'.value.edges_removed = 0
            /\ project_data'.edges = project_data.edges
      ]_vars

\* The first of two calls removed edges, the second none.
C26_Witness ==
    /\ returned.op = "validate_and_clean_data"
    /\ project_is_open
    /\ returned.previous.op = "validate_and_clean_data"
    /\ returned.previous.value.edges_removed > 0
    /\ returned.value.edges_removed = 0
    /\ Len(project_data.edges.items) > 0

\* The ids a group lists that are ids of no node
dangling_ids(group, pd) ==
    {group.node_ids.items[k] : k \in 1..Len(group.node_ids.items)}
        \ {pd.nodes.items[i].id : i \in 1..Len(pd.nodes.items)}

\* C27: after validate_and_clean_data on an open project no group lists the
\* id of a node the project does not have.
C27_ValidationPrunesGroups ==
    (returned.op = "validate_and_clean_data" /\ project_is_open) =>
        \A g \in 1..Len(project_data.groups.items) :
            dangling_ids(project_data.groups.items[g], project_data) = {}

\* validate_and_clean_data leaves the groups as they are.
ValidationKeepsGroups ==
    [][ validates => project_data'.groups = project_data.groups ]_vars

\* After the call group g1 still lists n3, which is no node; the call returned
\* its two counts.
GroupStillDangling ==
    /\ returned.op = "validate_and_clean_data"
    /\ project_is_open
    /\ Len(project_data.groups.items) = 1
    /\ "n3" \in dangling_ids(project_data.groups.items[1], project_data)
    /\ DOMAIN returned.value = {"edges_removed", "assets_removed"}

----------------------------------------------------------------------------
(* ProjectManager.get_referenced_assets and cleanup_orphaned_assets        *)
(* (SpecProject)                                                           *)

\* C28: get_referenced_assets returns as paper paths the relative_path_to_md
\* of the reference_paper nodes that have one, and as image paths the content
\* of the image snippets, of any node, that have one; two empty sets without
\* project data; and it changes neither the project nor the files.
C28_ReferencedAssets ==
    /\ [](returned.op = "get_referenced_assets" =>
            IF project_data = py_none
            THEN returned.value = [paper_paths |-> {}, image_paths |-> {}]
            ELSE LET nodes == project_data.nodes.items
                     snippets(i) == nodes[i].snippets.items
                 IN  /\ returned.value.paper_paths =
                            {nodes[i].metadata.relative_path_to_md :
                                i \in {n \in 1..Len(nodes) :
                                          /\ nodes[n].type = "reference_paper"
                                          /\ nodes[n].metadata.relative_path_to_md
                                                 # empty_str}}
                     /\ returned.value.image_paths =
                            UNION {{snippets(i)[j].content :
                                       j \in {k \in 1..Len(snippets(i)) :
                                                 /\ snippets(i)[k].type = "image"
                                                 /\ snippets(i)[k].content # empty_str}} :
                                   i \in 1..Len(nodes)})
    /\ [][ returned'.op = "get_referenced_assets" =>
               UNCHANGED <<project_data, asset_files, current_project_path>> ]_vars

\* Of a module node with a markdown path, a text snippet and an image
\* snippet, and a reference node with neither a path nor image content, the
\* one image is returned.
C28_Witness ==
    /\ returned.op = "get_referenced_assets"
    /\ project_data # py_none
    /\ project_data.nodes.items = <<ModuleNode, BareNode>>
    /\ returned.value = [paper_paths |-> {}, image_paths |-> {ImageB}]

\* A paper and an image are returned.
C28_WitnessBoth ==
    /\ returned.op = "get_referenced_assets"
    /\ returned.value = [paper_paths |-> {PaperA}, image_paths |-> {ImageA}]

\* A node refers to the file: a reference_paper node by its markdown path, or
\* any node by the content of an image snippet.
is_referenced(file, pd) ==
    /\ pd # py_none
    /\ \E i \in 1..Len(pd.nodes.items) :
           LET node == pd.nodes.items[i]
           IN  IF file[2] = "papers"
               THEN /\ node.type = "reference_paper"
                    /\ node.metadata.relative_path_to_md = file
               ELSE \E j \in 1..Len(node.snippets.items) :
                       /\ node.snippets.items[j].type = "image"
                       /\ node.snippets.items[j].content = file

\* The step is a cleanup_orphaned_assets() call on an open project.
cleans == returned'.op = "cleanup_orphaned_assets" /\ project_is_open

\* C29: cleanup_orphaned_assets on an open project deletes the files of the
\* two directories that no node refers to, and no other file, and returns
\* for each directory the number of files it deleted there.
C29_CleanupDeletesExactlyOrphans ==
    [][ cleans =>
            LET deleted == asset_files \ asset_files'
            IN  /\ asset_files' \subseteq asset_files
                /\ deleted = {file \in asset_files : ~is_referenced(file, project_data)}
                /\ returned'.value =
                       [papers |-> Cardinality({file \in deleted : file[2] = "papers"}),
                        images |-> Cardinality({file \in deleted : file[2] = "images"})]
      ]_vars

\* It deletes the unreferenced files whose unlink() does not fail, and no
\* other file, and returns the numbers of the files deleted.
CleanupDeletesOrphansItCanUnlink ==
    [][ cleans =>
            LET deleted == asset_files \ asset_files'
            IN  /\ asset_files' \subseteq asset_files
                /\ deleted = {file \in asset_files : ~is_referenced(file, project_data)}
                                 \ returned'.unlink_failed
                /\ returned'.value =
                       [papers |-> Cardinality({file \in deleted : file[2] = "papers"}),
                        images |-> Cardinality({file \in deleted : file[2] = "images"})]
      ]_vars

\* unlink() failed for b.png, which no node refers to: the file is still
\* there and the call returned images = 0.
UnlinkFailureKeepsOrphan ==
    /\ returned.op = "cleanup_orphaned_assets"
    /\ project_is_open
    /\ returned.unlink_failed = {ImageB}
    /\ ImageB \in asset_files
    /\ ~is_referenced(ImageB, project_data)
    /\ returned.value.images = 0

\* C30: after a cleanup_orphaned_assets() call on an open project every file
\* left in the two directories is referred to, and a call that follows at
\* once deletes nothing and returns zero counts.
C30_CleanupConverges ==
    [][ /\ cleans =>
               \A file \in asset_files' : is_referenced(file, project_data)
        /\ (returned.op = "cleanup_orphaned_assets" /\ cleans) =>
               /\ asset_files' = asset_files
               /\ returned'.value = [papers |-> 0, images |-> 0]
      ]_vars

\* Both hold of a call in which no unlink() fails, and of the call that
\* follows it.
CleanupConvergesWhenUnlinkSucceeds ==
    [][ /\ (cleans /\ returned'.unlink_failed = {}) =>
               \A file \in asset_files' : is_referenced(file, project_data)
        /\ ( /\ returned.op = "cleanup_orphaned_assets"
             /\ returned.unlink_failed = {}
             /\ cleans ) =>
               /\ asset_files' = asset_files
               /\ returned'.value = [papers |-> 0, images |-> 0]
      ]_vars

\* A second call has deleted a file the first could not unlink.
SecondCleanupDeletes ==
    /\ returned.op = "cleanup_orphaned_assets"
    /\ project_is_open
    /\ returned.previous.op = "cleanup_orphaned_assets"
    /\ returned.value.papers + returned.value.images > 0

----------------------------------------------------------------------------
(* The order of node_ids (SpecScene) *)

\* C40: undo() after execute() of a NodeGroupChangeCommand that has taken its
\* node out of old_group_id gives that group the node_ids list it had before
\* execute(): the node at the index it had, the others in their order.
C40_NodeGroupChangeRestoresOrder ==
    ( /\ is_node_group_change
      /\ calls_made = <<"execute", "undo">>
      /\ grouping_applicable(snapshot.before, constructed)
      /\ constructed.old_group_id # None ) =>
        scene.groups[constructed.old_group_id].node_ids =
            snapshot.before.groups[constructed.old_group_id].node_ids

\* What undo() does give back: the list without the node, and the node
\* after it.
NodeGroupChangeAppendsOnUndo ==
    ( /\ is_node_group_change
      /\ calls_made = <<"execute", "undo">>
      /\ grouping_applicable(snapshot.before, constructed)
      /\ constructed.old_group_id # None ) =>
        scene.groups[constructed.old_group_id].node_ids =
            Append(remove(snapshot.before.groups[constructed.old_group_id].node_ids,
                          constructed.node_id),
                   constructed.node_id)

\* n1 was the first of g1's node_ids <<n1, n2>>, has left g1 and come back:
\* g1's node_ids is <<n2, n1>>.
NodeComesBackLast ==
    /\ is_node_group_change
    /\ calls_made = <<"execute", "undo">>
    /\ constructed.node_id = "n1"
    /\ constructed.old_group_id = "g1"
    /\ constructed.new_group_id = None
    /\ snapshot.before.groups["g1"].node_ids = <<"n1", "n2">>
    /\ scene.groups["g1"].node_ids = <<"n2", "n1">>

----------------------------------------------------------------------------
(* What validate_and_clean_data leaves alone (SpecProject) *)

\* C39: validate_and_clean_data changes the edge list of the project and
\* nothing else: the nodes, groups, tags and todos and every file of the
\* asset directories are after the call what they were before it.
C39_ValidationChangesOnlyEdges ==
    [][ validates =>
            /\ project_data' = [project_data EXCEPT !.edges = project_data'.edges]
            /\ asset_files' = asset_files
      ]_vars

\* What the call does leave alone: every field of the project but the edge
\* list, and every asset file that a node refers to.
ValidationKeepsReferencedFiles ==
    [][ validates =>
            /\ project_data' = [project_data EXCEPT !.edges = project_data'.edges]
            /\ asset_files' \subseteq asset_files
            /\ \A file \in asset_files \ asset_files' : ~is_referenced(file, project_data)
      ]_vars

\* The call has removed no edge and has deleted an asset file.
ValidationDeletedFile ==
    /\ returned.op = "validate_and_clean_data"
    /\ project_is_open
    /\ returned.value.edges_removed = 0
    /\ returned.value.assets_removed > 0

----------------------------------------------------------------------------
(* The commands held across undo() and redo() (SpecIO) *)

\* How many times each command is held in the two stacks
commands_held(undo_list, redo_list) ==
    LET all == undo_list \o redo_list
    IN  [command \in {all[i] : i \in 1..Len(all)} |->
            Cardinality({i \in 1..Len(all) : all[i] = command})]

\* The step ends an undo() or redo() whose command method was started.
ends_undo_or_redo(value) == finished("undo", value) \/ finished("redo", value)

\* The commands the two stacks held when the call that this step ends was
\* made: those of the stacks now and the command the call has popped.
held_before_call ==
    commands_held(Append(undo_stack, top(call_stack).command), redo_stack)

\* C36: the commands held in undo_stack and redo_stack together are the same
\* after an undo() or redo() call as before it, also when the command's
\* undo() or execute() raises.
C36_UndoRedoLoseNoCommand ==
    [][ /\ (ends_undo_or_redo("True") \/ ends_undo_or_redo("raise")) =>
               commands_held(undo_stack', redo_stack') = held_before_call
        /\ (immediate("undo", "False") \/ immediate("redo", "False")) =>
               commands_held(undo_stack', redo_stack') =
                   commands_held(undo_stack, redo_stack)
      ]_vars

\* What does hold: a call whose command method returns moves the command
\* from one stack to the other, and a call that raises leaves both stacks
\* without it.
UndoRedoLoseTheCommandThatRaises ==
    [][ /\ ends_undo_or_redo("True") =>
               commands_held(undo_stack', redo_stack') = held_before_call
        /\ ends_undo_or_redo("raise") =>
               /\ undo_stack' = undo_stack
               /\ redo_stack' = redo_stack
               /\ commands_held(undo_stack', redo_stack') # held_before_call
      ]_vars

\* The only command held was undone, its undo() raised, and no stack holds
\* it.
CommandLostByRaise ==
    /\ ret = returns("undo", "raise")
    /\ call_stack = <<>>
    /\ undo_stack = <<>>
    /\ redo_stack = <<>>

----------------------------------------------------------------------------
(* The cap after load_from_file (SpecCapLoad) *)

\* C34: neither stack holds more than MAX_HISTORY commands, in the states
\* that load_from_file leaves and in those reached from them, whatever the
\* history file holds.
C34_LoadKeepsCap ==
    /\ Len(undo_stack) <= MAX_HISTORY
    /\ Len(redo_stack) <= MAX_HISTORY

\* What load_from_file does: from a file whose entries all deserialize, each
\* stack gets as many commands as the file has entries for it.
LoadTakesEveryEntry ==
    (ret = returns("load_from_file", "None") /\ io = "loaded") =>
        /\ Len(undo_stack) = Len(history_file.undo_stack)
        /\ Len(redo_stack) = Len(history_file.redo_stack)

\* A file with MAX_HISTORY + 1 entries in undo_stack has just been loaded.
OverfullAfterLoad ==
    /\ ret = returns("load_from_file", "None")
    /\ Len(undo_stack) = MAX_HISTORY + 1

\* Every command of such a file has been undone: redo_stack holds
\* MAX_HISTORY + 1 commands.
OverfullRedoAfterLoad ==
    /\ ret = returns("undo", "True")
    /\ Len(redo_stack) = MAX_HISTORY + 1

----------------------------------------------------------------------------
(* The project manager's fields (SpecLifecycle) *)

\* The step is an open_project call that did not return True.
open_fails ==
    /\ returned'.op = "open_project"
    /\ returned'.raised \/ returned'.value = FALSE

\* C33: an open_project call that fails returns False, with no exception
\* leaving it, and current_project_name, current_project_path and
\* project_data are what they were before the call.
C33_FailedOpenLeavesManager ==
    [][ open_fails =>
            /\ ~returned'.raised
            /\ UNCHANGED <<current_project_name, current_project_path, project_data>>
      ]_vars

\* What does hold: the three fields are written by a call that returns
\* True and by one whose ensure_directory fails, and by no other.
FailedOpenLeavesManagerBeforeMkdir ==
    [][ (open_fails /\ ~UNCHANGED <<current_project_name, current_project_path,
                                    project_data>>) =>
            /\ ~returned'.raised
            /\ \E name \in ProjectNames :
                   /\ projects_dir[name].data_file.status = "json"
                   /\ ~entity_from_dict_raises("ProjectData",
                                               projects_dir[name].data_file.value)
                   /\ current_project_name' = name
                   /\ current_project_path' = project_path(name)
                   /\ project_data' =
                          entity_from_dict("ProjectData",
                                           projects_dir[name].data_file.value)
      ]_vars

\* open_project("p1") has returned False with p2 open before it and p1 open
\* after it.
SwitchedByFailedOpen ==
    /\ returned.op = "open_project"
    /\ ~returned.raised
    /\ returned.value = FALSE
    /\ returned.previous.op = "create_project"
    /\ current_project_name = "p1"
    /\ projects_dir["p2"].exists

\* An exception has left open_project.
OpenRaised ==
    /\ returned.op = "open_project"
    /\ returned.raised

\* C38: after every create_project, open_project, save_project,
\* close_project and delete_project call, failed ones included, a project is
\* open exactly when project_data is not None.
C38_OpenIffProjectData ==
    project_is_open <=> project_data # py_none

\* open_project has failed on a manager that close_project had closed, and a
\* later open_project has opened the project.
C38_Witness ==
    /\ returned.op = "open_project"
    /\ ~returned.raised
    /\ returned.value = TRUE
    /\ returned.previous.op = "open_project"
    /\ returned.previous.value = FALSE
    /\ project_is_open
    /\ project_data = SavedProject

\* A call has failed and no project is open.
C38_WitnessClosed ==
    /\ returned.op \in {"open_project", "save_project", "delete_project"}
    /\ ~returned.raised
    /\ returned.value = FALSE
    /\ ~project_is_open
    /\ project_data = py_none

----------------------------------------------------------------------------
(* Duplicates in node_ids (SpecSession) *)

\* No id is twice in the list.
duplicate_free(node_ids) ==
    \A i, j \in 1..Len(node_ids) : node_ids[i] = node_ids[j] => i = j

\* C32: whatever NodeGroupChangeCommands execute(), undo() and redo() have
\* run, a command with old_group_id = new_group_id and a command whose node
\* is in the target group already among them, no group's node_ids holds an
\* id twice.
C32_NodeIdsDuplicateFree ==
    \A group_id \in GroupIds : duplicate_free(scene.groups[group_id].node_ids)

\* undo() and then redo() have run a NodeGroupChangeCommand that puts n1 in
\* g1, constructed when n1 was in g1 already (or with g1 as its old group
\* too): n1 is in g1.
C32_Witness ==
    /\ idle
    /\ roundtrip.stage = 4
    /\ undo_stack # <<>>
    /\ top(undo_stack).cls = "NodeGroupChangeCommand"
    /\ top(undo_stack).new_group_id = "g1"
    /\ top(undo_stack).old_group_id \in {None, "g1"}
    /\ contains(scene.groups["g1"].node_ids, "n1")

----------------------------------------------------------------------------
(* Undoing and redoing the whole history (SpecSession) *)

\* Every command was constructed with the old values of the state of the
\* moment, and no call is in progress and no command waits for its execute().
history_at_rest == idle /\ constructed = NoCommand /\ session.faithful

\* C35: once undo() has been called until it returns False the graph is
\* what it was before the first execute(), and once redo() has then been
\* called until it returns False it is what it was after the last execute().
C35_HistoryReversible ==
    history_at_rest =>
        /\ undo_stack = <<>> => graph(scene, project_data) = session.before
        /\ redo_stack = <<>> => graph(scene, project_data) = session.after

\* Two graphs that differ at most in the order of the groups' node_ids and
\* in module_colors holding a key for a colour the palette shows anyway
same_up_to_order(one, other) ==
    /\ one.scene.nodes = other.scene.nodes
    /\ \A group_id \in GroupIds :
          /\ one.scene.groups[group_id].present = other.scene.groups[group_id].present
          /\ one.scene.groups[group_id].pos = other.scene.groups[group_id].pos
          /\ one.scene.groups[group_id].color = other.scene.groups[group_id].color
          /\ members(one.scene, group_id) = members(other.scene, group_id)
    /\ one.project_data.pipeline_edge_color = other.project_data.pipeline_edge_color
    /\ one.project_data.reference_edge_color = other.project_data.reference_edge_color
    /\ one.project_data.edges = other.project_data.edges
    /\ \A module_type \in {"input", "process", "decision", "output", "group"} :
          palette_color(one.project_data, module_type) =
              palette_color(other.project_data, module_type)

\* The history holds a ModulePaletteColorChangeCommand for the groups.
group_color_changed ==
    \E i \in 1..Len(undo_stack \o redo_stack) :
        /\ (undo_stack \o redo_stack)[i].cls = "ModulePaletteColorChangeCommand"
        /\ (undo_stack \o redo_stack)[i].module_type = "group"

\* What does hold: positions, colours and the groups' members are restored,
\* unless the colour of the groups was changed.
HistoryReversibleUpToOrder ==
    (history_at_rest /\ ~group_color_changed) =>
        /\ undo_stack = <<>> =>
              same_up_to_order(graph(scene, project_data), session.before)
        /\ redo_stack = <<>> =>
              same_up_to_order(graph(scene, project_data), session.after)

\* n1 was moved from g1 = <<n1, n2>> to g2 and every command is undone: g1
\* is <<n2, n1>>.
OrderLostByUndoAll ==
    /\ history_at_rest
    /\ undo_stack = <<>>
    /\ redo_stack # <<>>
    /\ \E i \in 1..Len(redo_stack) :
          /\ redo_stack[i].cls = "NodeGroupChangeCommand"
          /\ redo_stack[i].old_group_id = "g1"
          /\ redo_stack[i].new_group_id = "g2"
    /\ session.before.scene.groups["g1"].node_ids = <<"n1", "n2">>
    /\ scene.groups["g1"].node_ids = <<"n2", "n1">>

\* The colour of the groups was changed and every command is undone: g2,
\* which had a colour of its own, has the old_color of the command.
GroupColorLostByUndoAll ==
    /\ history_at_rest
    /\ undo_stack = <<>>
    /\ Len(redo_stack) = 1
    /\ redo_stack[1].cls = "ModulePaletteColorChangeCommand"
    /\ redo_stack[1].module_type = "group"
    /\ session.before.scene.groups["g2"].color # redo_stack[1].old_color
    /\ scene.groups["g2"].color = redo_stack[1].old_color

----------------------------------------------------------------------------
(* The history file and project_data.json (SpecSession) *)

\* The project data after the commands' execute(), first to last
RECURSIVE effects_of(_, _)
effects_of(commands, pd) ==
    IF commands = <<>> THEN pd
    ELSE effects_of(Tail(commands), executed_project(Head(commands), pd))

\* project_data.json holds the project with the effects of exactly the
\* commands that load_from_file gives for the history file's undo_stack.
history_matches_data_file ==
    projects_dir["p1"].data_file =
        to_json(effects_of(deserialize_stack(history_file.undo_stack),
                           session.before.project_data))

\* C37: at every point of a sequence of execute, undo, redo and save_project
\* calls, the undo_stack in the history file is the list of the commands
\* whose effects project_data.json holds.
C37_HistoryFileMatchesDataFile == history_matches_data_file

\* What does hold: when save_project has written project_data.json, the
\* file holds the project of the moment and the history file the stacks of
\* the moment.
SaveProjectBringsFilesInStep ==
    [][projects_dir' # projects_dir =>
          /\ projects_dir'["p1"].data_file = to_json(project_data')
          /\ history_file'.undo_stack =
                 json_dump(history_data(undo_stack', redo_stack')).undo_stack
          /\ history_file'.redo_stack =
                 json_dump(history_data(undo_stack', redo_stack')).redo_stack]_vars

\* The history file holds a GlobalEdgeColorChange that project_data.json,
\* still as create_project wrote it, does not have.
HistoryFileAheadOfDataFile ==
    /\ idle
    /\ history_file.status = "written"
    /\ Len(history_file.undo_stack) = 1
    /\ history_file.undo_stack[1].type = "GlobalEdgeColorChange"
    /\ project_data.pipeline_edge_color = "#000000"
    /\ projects_dir["p1"].data_file = to_json(new_project_data)

----------------------------------------------------------------------------
(* Cleanup and the history (SpecRemove) *)

\* C31: no validation or cleanup deletes a file that a command of the
\* history gives a reference back to: whatever was removed, cleaned and
\* undone, every file that a node of the project names is on disk.
C31_CleanupSparesFilesOfTheHistory ==
    \A file \in AssetFiles :
        is_referenced(file, project_data) => file \in asset_files

\* What validate_and_clean_data and cleanup_orphaned_assets go by: the nodes
\* the project has at the call, whatever the history holds.
CleanupLooksAtTheProjectOnly ==
    [][asset_files' # asset_files =>
          asset_files \ asset_files' \subseteq
              unreferenced(asset_files, referenced_assets(project_data))]_vars

\* n1, a reference node with the paper a.md and the image a.png, was
\* removed, the files were deleted while the RemoveNodeCommand was in the
\* history, and undo() has given the node back.
RestoredNodeWithoutItsFiles ==
    /\ idle
    /\ ret = returns("undo", "True")
    /\ top(redo_stack).cls = "RemoveNodeCommand"
    /\ index_of_node(project_data.nodes.items, "n1") # 0
    /\ is_referenced(PaperA, project_data)
    /\ is_referenced(ImageA, project_data)
    /\ PaperA \notin asset_files
    /\ ImageA \notin asset_files

====
